---- MODULE Spec2Model ----
(***************************************************************************)
(* PixelPet: the model-response pipeline.                                  *)
(*                                                                         *)
(*   strip_thinking      banana/textclean.py   (the output sanitizer)      *)
(*   LocalModelClient    banana/client.py      (ask, _post_chat, _fallback)*)
(*   TTLCache            banana/weather.py     (the expiring store)        *)
(*                                                                         *)
(* A text is a sequence of tokens.  A token is either one character or one *)
(* of the literal patterns the regular expressions of textclean.py look    *)
(* for, written as the string the pattern matches.  CharLen gives the      *)
(* number of characters a token stands for, so that lengths and the        *)
(* character budget are counted in characters.                             *)
(***************************************************************************)
EXTENDS Integers, Sequences, FiniteSets, TLC

VARIABLES
  \* ---- strip_thinking, called on its own
  MAX_OUTPUT_CHARS,   \* textclean.MAX_OUTPUT_CHARS, the configured budget
  txt,                \* the argument of strip_thinking
  s_pc,               \* "off" | "input" | "once" | "twice"
  out,                \* strip_thinking(txt)
  out2,               \* strip_thinking(out)
  \* ---- LocalModelClient.ask
  pc,                 \* "off" | "start" | "wait1" | "wait2" | "returned" | "raised"
  prompt, system, no_think,   \* the arguments of ask
  sys_prompt, msgs,   \* the locals of ask that outlive attempt 1
  sent,               \* the chat requests posted so far, in order
  replies,            \* what the server did on each of them, in order
  cleans,             \* the sanitized result of each completed attempt
  result,             \* the string ask returned, once pc = "returned"
  exc,                \* the exception that left ask
  \* ---- TTLCache
  c_pc,               \* "off" | "on"
  store,              \* TTLCache._store, a dict in insertion order
  max_size,           \* TTLCache.max_size
  now,                \* time.time()
  last_op,            \* the last call made on the cache, when, and what it returned
  last_set,           \* history: for each key, the last set(k, v, ttl) made and
                      \* whether a later set at max_size has popped its entry
  \* ---- WeatherClient
  w_pc,               \* "off" | "on"
  lang,               \* WeatherClient.lang
  geo_cache,          \* WeatherClient.geo_cache._store
  wx_cache,           \* WeatherClient.wx_cache._store
  w_max_size,         \* max_size of geo_cache and of wx_cache
  w_ticks,            \* how many times the clock has been moved
  w_last,             \* the last call made on the client and what it did
  geo_hist,           \* history: for each city, the last geocode result that came
                      \* from a request, when, and whether its entry was popped since
  \* ---- LocalModelClient.ensure_ready and the supporting operations
  r_pc,               \* "off" | "start" | "poll" | "check" | "list" | "pull" |
                      \* "stream" | "returned"
  r_os,               \* platform.system()
  wait_sec,           \* the argument wait_sec, in seconds
  model_name,         \* LocalModelClient.model_name, a sequence of characters
  on_progress,        \* the argument on_progress: "None" | "returns" | "raises"
  r_clock,            \* time.time(), in tenths of a second
  r_t0,               \* the local t0
  r_seen_up,          \* history: some probe of this call found the server reachable
  r_polled,           \* history: the polling loop was entered
  r_probes,           \* history: how many probes this call has sent
  r_have,             \* the local have
  r_lists,            \* history: how many model queries were sent
  r_pulls,            \* history: the pull requests sent
  r_stream,           \* the lines of the pull stream not yet read
  r_calls,            \* history: the arguments of the calls of on_progress
  r_result,           \* what ensure_ready returned, once r_pc = "returned"
  \* ---- is_available, list_models, unload
  sup_pc,             \* "off" | "on"
  sup_last,           \* the last supporting call, what the server did, what came back
  \* ---- PetWindow, auto-bubbling
  g_pc,               \* "off" | "on"
  settings_auto_bubble,   \* self.settings.auto_bubble
  busy_left,          \* max(0, self._busy_until_ms - now), in steps
  auto_timer,         \* self.auto_timer: <<>> stopped, <<n>> timeout in n steps
  input_bar,          \* self.input_bar: "hidden" | "shown" | "fading"
  workers,            \* the threads _ask of the submissions
  say_queue,          \* the emissions of sigSay by _ask not yet run by the window
  weather_cd,         \* steps until now - _last_weather_ms >= WEATHER_COOLDOWN
  random_cd,          \* steps until now - _last_random_ms >= RANDOM_COOLDOWN
  since_click,        \* history: steps since the last on_click, up to the window
  since_reply,        \* history: steps since the last reply was shown, up to the window
  last_auto           \* history: what the last run of auto_bubble did

strip_vars == <<MAX_OUTPUT_CHARS, txt, s_pc, out, out2>>
ask_vars   == <<pc, prompt, system, no_think, sys_prompt, msgs, sent, replies,
                cleans, result, exc>>
cache_vars == <<c_pc, store, max_size, now, last_op, last_set>>
weather_vars == <<w_pc, lang, geo_cache, wx_cache, w_max_size, w_ticks, w_last, geo_hist>>
ready_vars == <<r_pc, r_os, wait_sec, model_name, on_progress, r_clock, r_t0, r_seen_up,
                r_polled, r_probes, r_have, r_lists, r_pulls, r_stream, r_calls, r_result,
                sup_pc, sup_last>>
gui_vars   == <<g_pc, settings_auto_bubble, busy_left, auto_timer, input_bar, workers,
                say_queue, weather_cd, random_cd, since_click, since_reply, last_auto>>
vars       == <<strip_vars, ask_vars, cache_vars, weather_vars, ready_vars, gui_vars>>

None == "None"

\* ------------------------------------------------------------------ bounds
MaxLen == 3
MaxBudget == 2
MaxPromptLen == 2
MaxReplyLen == 2
MaxCacheSize == 2
MaxTtl == 1
MaxClock == 3
MaxWxTicks == 2
MaxWait == 2
MaxStream == 2
MaxTags == 1
MaxEntries == 2
MaxSubmits == 2

\* ------------------------------------------------------------------ program constants
DEFAULT_MAX_OUTPUT_CHARS == 1200
DEFAULT_MAX_SIZE == 256
DEFAULT_TTL == 600
SHORT_PROMPT_LEN == 10
HTTP_TEXT_CHARS == 160
KEEP_ALIVE_SEC == 120
NUM_PREDICT == 512
NUM_CTX == 1024
DEFAULT_WAIT_SEC == 45
SLEEP_TENTHS == 12
PROBE_TIMEOUT_TENTHS == 30
AUTO_MIN_MS == 120000
AUTO_MAX_MS == 300000
SILENCE_AFTER_CHAT == 120000
WEATHER_COOLDOWN == 600000
RANDOM_COOLDOWN == 120001
RESUME_MIN_MS == 60000
RESUME_MAX_MS == 120000

\* ------------------------------------------------------------------ tokens
OT  == "<think>"
CT  == "</think>"
OA  == "<think x>"
BT  == "fence"
TH  == "think"
NL  == "\n"
SP  == " "
LBL == "analysis-label:"
FIN == "Answer:"
SPK == "Assistant:"
FRAG == "?"

CharLen(c) ==
  CASE c = OT  -> 7
    [] c = CT  -> 8
    [] c = OA  -> 9
    [] c = BT  -> 3
    [] c = TH  -> 5
    [] c = LBL -> 3
    [] c = FIN -> 7
    [] c = SPK -> 10
    [] c = "[HTTP 500]" -> 10
    [] c = "[model-error]" -> 8
    [] c = "hi" -> 2
    [] c = "weather" -> 2
    [] c = "ten-chars" -> 10
    [] OTHER   -> 1

RECURSIVE TextLen(_)
TextLen(s) == IF s = <<>> THEN 0 ELSE CharLen(Head(s)) + TextLen(Tail(s))

IsSpace(c) == c \in {SP, NL}

Range(s) == {s[i] : i \in 1..Len(s)}

Min(S) == CHOOSE m \in S : \A n \in S : m <= n
Max(S) == CHOOSE m \in S : \A n \in S : m >= n

From(s, i) == SubSeq(s, i, Len(s))

\* s[:n] on characters.  A token the cut falls into leaves its first
\* characters behind, each written FRAG: a visible character that is part of
\* no pattern.
RECURSIVE Slice(_, _)
Slice(s, n) ==
  IF s = <<>> \/ n <= 0 THEN <<>>
  ELSE IF CharLen(Head(s)) <= n
       THEN <<Head(s)>> \o Slice(Tail(s), n - CharLen(Head(s)))
       ELSE [i \in 1..n |-> FRAG]

\* str.strip(), str.lstrip(), str.rstrip()
RECURSIVE lstrip(_)
lstrip(s) == IF s # <<>> /\ IsSpace(Head(s)) THEN lstrip(Tail(s)) ELSE s
RECURSIVE rstrip(_)
rstrip(s) ==
  IF s # <<>> /\ IsSpace(s[Len(s)]) THEN rstrip(SubSeq(s, 1, Len(s) - 1)) ELSE s
strip(s) == rstrip(lstrip(s))

\* ------------------------------------------------------------------ textclean.py
\* The tokens each pattern of textclean.py matches.
ThinkOpen   == {OT, OA}   \* <\s*(?:think|...)\b[^>]*>   (_THINK_TAGS, opening)
ThinkClose  == {CT}       \* </\s*(?:think|...)\s*>      (_THINK_TAGS, closing)
BareTags    == {OT, CT}   \* </?\s*(?:think|...)\s*>     (line 38)
OpenAnyAttr == {OT, OA}   \* <\s*(?:think|...)[^>]*>     (line 40)

\* _THINK_TAGS.sub("", txt): every leftmost span from an opening tag to the
\* first closing tag after it is removed (".*?" is lazy).
RECURSIVE THINK_TAGS_sub(_)
THINK_TAGS_sub(s) ==
  IF s = <<>> THEN <<>>
  ELSE LET closes == {j \in 2..Len(s) : s[j] \in ThinkClose}
       IN IF Head(s) \in ThinkOpen /\ closes # {}
          THEN THINK_TAGS_sub(From(s, Min(closes) + 1))
          ELSE <<Head(s)>> \o THINK_TAGS_sub(Tail(s))

\* _TRIPLE_BACKTICK_THINK.sub("", txt): a fence followed at once by an alias
\* word, up to and including the next fence.
RECURSIVE TRIPLE_BACKTICK_THINK_sub(_)
TRIPLE_BACKTICK_THINK_sub(s) ==
  IF s = <<>> THEN <<>>
  ELSE LET ends == {j \in 3..Len(s) : s[j] = BT}
       IN IF Len(s) >= 2 /\ s[1] = BT /\ s[2] = TH /\ ends # {}
          THEN TRIPLE_BACKTICK_THINK_sub(From(s, Min(ends) + 1))
          ELSE <<Head(s)>> \o TRIPLE_BACKTICK_THINK_sub(Tail(s))

\* _THINK_BLOCK.sub("", txt).  "^" is the start of the text (no MULTILINE):
\* optional white space, a reasoning label, then lazily up to the first
\* "\n\s*\n" (the greedy "\s*" runs to the last newline of the white space
\* that follows) or "$" (the end, or just before a final newline).
THINK_BLOCK_sub(s) ==
  LET body == lstrip(s)
      p    == Len(s) - Len(body) + 2          \* the first position after the label
      RunEnd(e) == Min({k \in e..Len(s) : k = Len(s) \/ ~IsSpace(s[k + 1])})
      Blank(e)  == /\ e <= Len(s)
                   /\ s[e] = NL
                   /\ \E k \in (e + 1)..RunEnd(e) : s[k] = NL
      Dollar(e) == e = Len(s) + 1 \/ (e = Len(s) /\ s[e] = NL)
      e0   == Min({e \in p..(Len(s) + 1) : Blank(e) \/ Dollar(e)})
  IN IF body = <<>> \/ Head(body) # LBL THEN s
     ELSE IF Blank(e0)
          THEN From(s, Max({k \in (e0 + 1)..RunEnd(e0) : s[k] = NL}) + 1)
          ELSE From(s, e0)

\* re.sub(r"(?is)</?\s*(?:think|analysis|assistant_thought|scratchpad)\s*>", "", txt)
BareTags_sub(s) == SelectSeq(s, LAMBDA c : c \notin BareTags)

\* m = re.search(<an opening tag, attributes allowed>); if m: txt = txt[:m.start()]
CutAtOpenTag(s) ==
  LET hits == {i \in 1..Len(s) : s[i] \in OpenAnyAttr}
  IN IF hits = {} THEN s ELSE SubSeq(s, 1, Min(hits) - 1)

\* m2 = _FINAL_MARK.search(txt); if m2: txt = txt[m2.end():]
FINAL_MARK_cut(s) ==
  LET hits == {i \in 1..Len(s) : s[i] = FIN}
  IN IF hits = {} THEN s ELSE From(s, Min(hits) + 1)

\* re.sub(r"^(?:...|Assistant)\s*[:...]\s*", "", txt.strip())
SpeakerLabel_sub(s) ==
  LET t == strip(s)
  IN IF t # <<>> /\ Head(t) = SPK THEN lstrip(Tail(t)) ELSE t

\* txt.splitlines()
RECURSIVE splitlines(_)
splitlines(s) ==
  LET nls == {i \in 1..Len(s) : s[i] = NL}
  IN IF s = <<>> THEN <<>>
     ELSE IF nls = {} THEN <<s>>
     ELSE <<SubSeq(s, 1, Min(nls) - 1)>> \o splitlines(From(s, Min(nls) + 1))

\* "\n".join(lines)
RECURSIVE join(_)
join(lines) ==
  IF lines = <<>> THEN <<>>
  ELSE IF Len(lines) = 1 THEN lines[1]
  ELSE lines[1] \o <<NL>> \o join(Tail(lines))

\* lines = [line.rstrip() for line in txt.splitlines() if line.strip()]
CleanLines(s) ==
  LET kept == SelectSeq(splitlines(s), LAMBDA l : strip(l) # <<>>)
  IN [i \in 1..Len(kept) |-> rstrip(kept[i])]

\* The truncation left out.
Truncate_off(s, max) == s

\* return out if MAX_OUTPUT_CHARS == 0 else out[:MAX_OUTPUT_CHARS]
Truncate(s, max) == IF max = 0 THEN s ELSE Slice(s, max)

\* strip_thinking(txt) under the budget max
strip_thinking_with(s, max) ==
  IF s = <<>> THEN <<>>
  ELSE LET t1 == THINK_TAGS_sub(s)
           t2 == TRIPLE_BACKTICK_THINK_sub(t1)
           t3 == THINK_BLOCK_sub(t2)
           t4 == BareTags_sub(t3)
           t5 == CutAtOpenTag(t4)
           t6 == FINAL_MARK_cut(t5)
           t7 == SpeakerLabel_sub(t6)
       IN Truncate(join(CleanLines(t7)), max)

strip_thinking(s) == strip_thinking_with(s, MAX_OUTPUT_CHARS)

\* ------------------------------------------------------------------ banana/client.py
\* The fixed texts of client.py, each one token.
NO_THINK_INSTR == "[no-think instruction]"          \* line 64
STRICT_INSTR   == "[one-sentence instruction]"      \* line 81, after its leading space
FALLBACK_GREETING == <<"[fallback: greeting]">>     \* line 112
FALLBACK_WEATHER  == <<"[fallback: weather]">>      \* line 114
FALLBACK_SHORT    == <<"[fallback: short]">>        \* line 116
FALLBACK_GENERIC  == <<"[fallback: generic]">>      \* line 117
Fallbacks == {FALLBACK_GREETING, FALLBACK_WEATHER, FALLBACK_SHORT, FALLBACK_GENERIC}

GreetingKeywords == {"hi"}        \* one token for each of the keywords of line 111
WeatherKeyword   == "weather"     \* the keyword of line 113

\* textclean.SOFT_STOPS
SOFT_STOPS == <<"system-label:", "user-label:", "System:", "User:", "analysis:",
                "Analysis:", OT, CT, "<analysis>", "</analysis>",
                "<assistant_thought>", "</assistant_thought>", "<scratchpad>",
                "</scratchpad>", "<|assistant_thought|>", "fence-think",
                "fence-analysis", "think-label:", "analysis-label:", "reason-label:">>

\* _fallback with the weather keyword tried first.
fallback_weather_first(p0) ==
  LET p == strip(p0)
  IN IF WeatherKeyword \in Range(p) THEN FALLBACK_WEATHER
     ELSE IF Range(p) \cap GreetingKeywords # {} THEN FALLBACK_GREETING
     ELSE IF TextLen(p) < SHORT_PROMPT_LEN THEN FALLBACK_SHORT
     ELSE FALLBACK_GENERIC

\* LocalModelClient._fallback(prompt)
fallback(p0) ==
  LET p == strip(p0)
  IN IF Range(p) \cap GreetingKeywords # {} THEN FALLBACK_GREETING
     ELSE IF WeatherKeyword \in Range(p) THEN FALLBACK_WEATHER
     ELSE IF TextLen(p) < SHORT_PROMPT_LEN THEN FALLBACK_SHORT
     ELSE FALLBACK_GENERIC

\* What the server does on one POST /api/chat:
\*   refused, timeout   requests.post raises
\*   status             a non-2xx response, body the response text
\*   badjson            a 2xx response whose body is not JSON
\*   json               a 2xx response {message: {content: body}, error: error}
\* An error that is absent or empty is written <<>>: "err and not msg" reads
\* the two alike.
Reply(kind, body, error) == [kind |-> kind, body |-> body, error |-> error]

\* The exception _post_chat leaves with, None when it returns.
post_chat_raises(r) ==
  CASE r.kind = "refused" -> "ConnectionError"     \* requests.post, line 43
    [] r.kind = "timeout" -> "Timeout"             \* requests.post, line 43
    [] r.kind = "badjson" -> "JSONDecodeError"     \* r.json(), line 48
    [] OTHER -> None

\* The string _post_chat returns.
post_chat(r) ==
  IF r.kind = "status"
  THEN <<"[HTTP 500]", SP>> \o Slice(r.body, HTTP_TEXT_CHARS)
  ELSE IF r.error # <<>> /\ r.body = <<>>
       THEN <<"[model-error]", SP>> \o r.error
       ELSE r.body

Message(role, content) == [role |-> role, content |-> content]

\* The payload of _post_chat
ChatRequest(messages, options) ==
  [model |-> "model_name", messages |-> messages, stream |-> FALSE,
   options |-> options, keep_alive |-> KEEP_ALIVE_SEC]

Options1 == [num_predict |-> NUM_PREDICT, temperature |-> "0.6"]
Options2 == [num_predict |-> NUM_PREDICT, temperature |-> "0.6", num_ctx |-> NUM_CTX, stop |-> SOFT_STOPS]

\* ask, lines 59-64: sys_prompt
SysPrompt(sys, nt) ==
  IF nt THEN (IF sys # <<>> THEN sys \o <<SP>> ELSE <<>>) \o <<NO_THINK_INSTR>>
  ELSE sys

\* msgs with the user message put first.
Msgs_user_first(sp, p) ==
  <<Message("user", p)>> \o (IF sp # <<>> THEN <<Message("system", sp)>> ELSE <<>>)

\* ask, lines 65-68: msgs
Msgs(sp, p) ==
  (IF sp # <<>> THEN <<Message("system", sp)>> ELSE <<>>) \o <<Message("user", p)>>

\* ask, lines 77-82: msgs2
Msgs2(ms, sp, nt) ==
  IF nt THEN [ms EXCEPT ![1] = Message("system", sp \o <<SP, STRICT_INSTR>>)]
  ELSE ms

\* ------------------------------------------------------------------ parts at rest
\* Each specification below runs one component; the others stay as built.
StripOff ==
  /\ s_pc = "off" /\ txt = <<>> /\ out = <<>> /\ out2 = <<>>
  /\ MAX_OUTPUT_CHARS = DEFAULT_MAX_OUTPUT_CHARS

AskOff ==
  /\ pc = "off" /\ prompt = <<>> /\ system = <<>> /\ no_think = TRUE
  /\ sys_prompt = <<>> /\ msgs = <<>> /\ sent = <<>> /\ replies = <<>>
  /\ cleans = <<>> /\ result = <<>> /\ exc = None


CacheOff ==
  /\ c_pc = "off" /\ store = <<>> /\ max_size = DEFAULT_MAX_SIZE /\ now = 0
  /\ last_op = [op |-> "none", key |-> None, value |-> None, at |-> 0] /\ last_set = <<>>

NoCall ==
  [op |-> "none", city |-> <<>>, value |-> <<>>, raised |-> None, at |-> 0,
   geo_requests |-> 0, wx_requests |-> 0]

WeatherOff ==
  /\ w_pc = "off" /\ lang = "zh" /\ geo_cache = <<>> /\ wx_cache = <<>>
  /\ w_max_size = DEFAULT_MAX_SIZE /\ w_ticks = 0
  /\ w_last = NoCall /\ geo_hist = <<>>

NoSupport ==
  [op |-> "none", reply |-> [kind |-> "none", models |-> <<>>, data |-> <<>>],
   value |-> <<>>, requests |-> 0]

ReadyOff ==
  /\ r_pc = "off" /\ r_os = "Darwin" /\ wait_sec = DEFAULT_WAIT_SEC
  /\ model_name = <<>> /\ on_progress = None
  /\ r_clock = 0 /\ r_t0 = 0 /\ r_seen_up = FALSE /\ r_polled = FALSE /\ r_probes = 0
  /\ r_have = FALSE /\ r_lists = 0 /\ r_pulls = <<>> /\ r_stream = <<>> /\ r_calls = <<>>
  /\ r_result = FALSE
  /\ sup_pc = "off" /\ sup_last = NoSupport

GuiOff ==
  /\ g_pc = "off" /\ settings_auto_bubble = FALSE /\ busy_left = 0 /\ auto_timer = <<>>
  /\ input_bar = "hidden" /\ workers = <<>> /\ say_queue = <<>>
  /\ weather_cd = 0 /\ random_cd = 0
  /\ since_click = <<>> /\ since_reply = <<>> /\ last_auto = "none"

\* ------------------------------------------------------------------ strip_thinking on its own
Alphabet == {OT, CT, OA, BT, TH, NL, SP, LBL, FIN, SPK, "a"}

RECURSIVE TextsOver(_, _)
TextsOver(A, n) ==
  IF n = 0 THEN {<<>>}
  ELSE LET r == TextsOver(A, n - 1)
       IN r \cup {Append(t, c) : t \in {u \in r : Len(u) = n - 1}, c \in A}

\* The inputs: every text of at most MaxLen tokens, and each of them once more
\* inside a <think>...</think> span.
Inputs ==
  LET base == TextsOver(Alphabet, MaxLen)
  IN base \cup {<<OT>> \o t \o <<CT>> : t \in base}

Budgets == (0..MaxBudget) \cup {DEFAULT_MAX_OUTPUT_CHARS}

StripInit ==
  /\ s_pc = "input"
  /\ txt \in Inputs
  /\ MAX_OUTPUT_CHARS \in Budgets
  /\ out = <<>> /\ out2 = <<>>
  /\ AskOff /\ CacheOff /\ WeatherOff /\ ReadyOff /\ GuiOff

\* out = strip_thinking(txt)
StripOnce ==
  /\ s_pc = "input"
  /\ out' = strip_thinking(txt)
  /\ s_pc' = "once"
  /\ UNCHANGED <<MAX_OUTPUT_CHARS, txt, out2, ask_vars, cache_vars,
                 weather_vars, ready_vars, gui_vars>>

\* out2 = strip_thinking(out)
StripTwice ==
  /\ s_pc = "once"
  /\ out2' = strip_thinking(out)
  /\ s_pc' = "twice"
  /\ UNCHANGED <<MAX_OUTPUT_CHARS, txt, out, ask_vars, cache_vars,
                 weather_vars, ready_vars, gui_vars>>

StripNext == StripOnce \/ StripTwice

SpecStrip == StripInit /\ [][StripNext]_vars

\* ------------------------------------------------------------------ LocalModelClient.ask
PromptAlphabet == {"hi", "weather", "x", "ten-chars", SP}
Prompts == TextsOver(PromptAlphabet, MaxPromptLen)
\* system: None (written <<>>, as "system or \"\"" reads it) or a text
Systems == {<<>>, <<"S">>}

\* The contents a 2xx answer carries and the texts a non-2xx response carries.
ContentAlphabet == {"a", OA}
ErrorTextAlphabet == {"a", FIN}
Replies ==
  {Reply(k, <<>>, <<>>) : k \in {"refused", "timeout", "badjson"}}
    \cup {Reply("status", b, <<>>) : b \in TextsOver(ErrorTextAlphabet, MaxReplyLen)}
    \cup {Reply("json", b, e) : b \in TextsOver(ContentAlphabet, MaxReplyLen),
                                e \in {<<>>, <<"e">>}}

AskInit ==
  /\ pc = "start"
  /\ prompt \in Prompts
  /\ system \in Systems
  /\ no_think \in BOOLEAN
  /\ sys_prompt = <<>> /\ msgs = <<>> /\ sent = <<>> /\ replies = <<>>
  /\ cleans = <<>> /\ result = <<>> /\ exc = None
  /\ StripOff /\ CacheOff /\ WeatherOff /\ ReadyOff /\ GuiOff

\* "if clean1:" and "if clean2:" (lines 74, 89)
truthy_always(s) == TRUE
truthy_never(s) == FALSE
truthy(s) == s # <<>>

\* ask, lines 59-72: the messages are built and the first request is posted.
AskAttempt1 ==
  /\ pc = "start"
  /\ sys_prompt' = SysPrompt(system, no_think)
  /\ msgs' = Msgs(sys_prompt', prompt)
  /\ sent' = <<ChatRequest(msgs', Options1)>>
  /\ pc' = "wait1"
  /\ UNCHANGED <<prompt, system, no_think, replies, cleans, result, exc,
                 strip_vars, cache_vars,
                 weather_vars, ready_vars, gui_vars>>

\* The first request ends (_post_chat, lines 43-53); ask, lines 73-87: the
\* result is sanitized and returned, or the second request is posted.
ChatReply1(r) ==
  /\ pc = "wait1"
  /\ replies' = Append(replies, r)
  /\ IF post_chat_raises(r) # None
     THEN /\ pc' = "raised"
          /\ exc' = post_chat_raises(r)
          /\ UNCHANGED <<sent, cleans, result>>
     ELSE LET clean1 == strip_thinking(post_chat(r))
          IN /\ cleans' = Append(cleans, clean1)
             /\ exc' = exc
             /\ IF truthy(clean1)
                THEN /\ result' = clean1
                     /\ pc' = "returned"
                     /\ sent' = sent
                ELSE /\ sent' = Append(sent,
                                  ChatRequest(Msgs2(msgs, sys_prompt, no_think), Options2))
                     /\ pc' = "wait2"
                     /\ result' = result
  /\ UNCHANGED <<prompt, system, no_think, sys_prompt, msgs, strip_vars, cache_vars,
                 weather_vars, ready_vars, gui_vars>>

\* a second attempt that returns what _post_chat gave, as it came.
ChatReply2_raw(r) ==
  /\ pc = "wait2"
  /\ replies' = Append(replies, r)
  /\ IF post_chat_raises(r) # None
     THEN /\ pc' = "raised"
          /\ exc' = post_chat_raises(r)
          /\ UNCHANGED <<cleans, result>>
     ELSE LET clean2 == strip_thinking(post_chat(r))
          IN /\ cleans' = Append(cleans, clean2)
             /\ exc' = exc
             /\ result' = IF truthy(clean2) THEN post_chat(r) ELSE fallback(prompt)
             /\ pc' = "returned"
  /\ UNCHANGED <<prompt, system, no_think, sys_prompt, msgs, sent, strip_vars, cache_vars,
                 weather_vars, ready_vars, gui_vars>>

\* The second request ends; ask, lines 88-92: the result is sanitized and
\* returned, or the canned reply is.
ChatReply2(r) ==
  /\ pc = "wait2"
  /\ replies' = Append(replies, r)
  /\ IF post_chat_raises(r) # None
     THEN /\ pc' = "raised"
          /\ exc' = post_chat_raises(r)
          /\ UNCHANGED <<cleans, result>>
     ELSE LET clean2 == strip_thinking(post_chat(r))
          IN /\ cleans' = Append(cleans, clean2)
             /\ exc' = exc
             /\ result' = IF truthy(clean2) THEN clean2 ELSE fallback(prompt)
             /\ pc' = "returned"
  /\ UNCHANGED <<prompt, system, no_think, sys_prompt, msgs, sent, strip_vars, cache_vars,
                 weather_vars, ready_vars, gui_vars>>

AskNext ==
  \/ AskAttempt1
  \/ \E r \in Replies : ChatReply1(r)
  \/ \E r \in Replies : ChatReply2(r)

SpecAsk == AskInit /\ [][AskNext]_vars

\* ------------------------------------------------------------------ banana/weather.py, TTLCache
\* _store is a dict, which keeps its keys in insertion order: a sequence of
\* entries [key, value, expire_at] with no key twice.
Entry(k, v, e) == [key |-> k, value |-> v, expire_at |-> e]

HasKey(st, k) == \E i \in 1..Len(st) : st[i].key = k
Item(st, k)   == st[CHOOSE i \in 1..Len(st) : st[i].key = k]

\* self._store.pop(key, None)
Pop(st, k) == SelectSeq(st, LAMBDA it : it.key # k)

\* self._store[key] = item: in place when the key is there, at the end when not
Put(st, it) ==
  IF HasKey(st, it.key)
  THEN [i \in 1..Len(st) |-> IF st[i].key = it.key THEN it ELSE st[i]]
  ELSE Append(st, it)

\* an entry that never expires.
Expired_never(it, t) == FALSE

\* "it.expire_at < time.time()"
Expired(it, t) == it.expire_at < t

\* get with the expiry test left out.
TTLCache_get_noexpiry(st, k, t) ==
  IF ~HasKey(st, k) THEN [store |-> st, value |-> None]
  ELSE [store |-> st, value |-> Item(st, k).value]

\* get that drops every expired entry it finds.
TTLCache_get_purge(st, k, t) ==
  IF ~HasKey(st, k) \/ Expired(Item(st, k), t)
  THEN [store |-> SelectSeq(st, LAMBDA it : ~Expired(it, t) /\ it.key # k), value |-> None]
  ELSE [store |-> st, value |-> Item(st, k).value]

\* TTLCache.get(key) at time t: the store it leaves and the value it returns
TTLCache_get(st, k, t) ==
  IF ~HasKey(st, k) \/ Expired(Item(st, k), t)
  THEN [store |-> Pop(st, k), value |-> None]
  ELSE [store |-> st, value |-> Item(st, k).value]

\* set that never pops.
TTLCache_set_nopop(st, size, k, v, ttl, t) == Put(st, Entry(k, v, t + ttl))

\* TTLCache.set(key, value, ttl) at time t, ttl already defaulted to self.ttl:
\* the store it leaves
TTLCache_set(st, size, k, v, ttl, t) ==
  LET room == IF Len(st) >= size THEN Tail(st) ELSE st
  IN Put(room, Entry(k, v, t + ttl))

\* ------------------------------------------------------------------ TTLCache on its own
Keys   == {"k1", "k2"}
Values == {"v1", "v2"}
\* the ttl argument of set; DEFAULT_TTL is what "ttl=None" stands for
Ttls   == (0..MaxTtl) \cup {DEFAULT_TTL}

NoOp == [op |-> "none", key |-> None, value |-> None, at |-> 0]
NeverSet == [set |-> FALSE, value |-> None, expire_at |-> 0, evicted |-> FALSE]

CacheInit ==
  /\ c_pc = "on"
  /\ store = <<>>
  /\ max_size \in 1..MaxCacheSize
  /\ now = 0
  /\ last_op = NoOp
  /\ last_set = [k \in Keys |-> NeverSet]
  /\ StripOff /\ AskOff /\ WeatherOff /\ ReadyOff /\ GuiOff

\* cache.set(k, v, ttl)
CacheSet(k, v, ttl) ==
  /\ c_pc = "on"
  /\ store' = TTLCache_set(store, max_size, k, v, ttl, now)
  /\ last_op' = [op |-> "set", key |-> k, value |-> None, at |-> now]
  /\ last_set' = [j \in Keys |->
       IF j = k THEN [set |-> TRUE, value |-> v, expire_at |-> now + ttl, evicted |-> FALSE]
       ELSE IF HasKey(store, j) /\ ~HasKey(store', j)
            THEN [last_set[j] EXCEPT !.evicted = TRUE]
            ELSE last_set[j]]
  /\ UNCHANGED <<c_pc, max_size, now, strip_vars, ask_vars,
                 weather_vars, ready_vars, gui_vars>>

\* cache.get(k)
CacheGet(k) ==
  /\ c_pc = "on"
  /\ LET r == TTLCache_get(store, k, now)
     IN /\ store' = r.store
        /\ last_op' = [op |-> "get", key |-> k, value |-> r.value, at |-> now]
  /\ UNCHANGED <<c_pc, max_size, now, last_set, strip_vars, ask_vars,
                 weather_vars, ready_vars, gui_vars>>

\* time.time() moves on
Tick ==
  /\ c_pc = "on"
  /\ now < MaxClock
  /\ now' = now + 1
  /\ UNCHANGED <<c_pc, store, max_size, last_op, last_set, strip_vars, ask_vars,
                 weather_vars, ready_vars, gui_vars>>

CacheNext ==
  \/ \E k \in Keys, v \in Values, ttl \in Ttls : CacheSet(k, v, ttl)
  \/ \E k \in Keys : CacheGet(k)
  \/ Tick

SpecCache == CacheInit /\ [][CacheNext]_vars

\* ------------------------------------------------------------------ banana/weather.py, WeatherClient
\* An optional value (a dict or None) is written <<v>> or <<>>.
GEO_TTL == 604800
WX_TTL == 600

\* f"geo:{self.lang}:{city}"
GeoKey(lg, city) == <<"geo", lg, city>>

\* "{x:.3f}": a coordinate is held in units of 1/10000 degree, the key holds
\* thousandths
Round3(x) == (x + 5) \div 10

\* f"wx:{g['lat']:.3f},{g['lon']:.3f}:basic"
WxKey(g) == <<"wx", Round3(g.lat), Round3(g.lon), "basic">>

\* What the geocoding endpoint did: kind "error" is a transport failure, a
\* time-out, a status raise_for_status rejects or a body that is not JSON;
\* kind "json" carries the "results" list.
GeoReply(kind, results) == [kind |-> kind, results |-> results]

\* One entry of "results"; ok is FALSE when latitude or longitude is missing
\* or is no number, an absent name is <<>>.
GeoItem(ok, name, lat, lon) == [ok |-> ok, name |-> name, lat |-> lat, lon |-> lon]

\* geocode, lines 73-79: "out"
GeoOut(it, city) ==
  [name |-> IF it.name # <<>> THEN it.name ELSE city,
   country |-> <<>>, lat |-> it.lat, lon |-> it.lon, timezone |-> "auto"]

\* geocode would leave the try block by an exception (lines 66-76)
geocode_fails(reply) ==
  \/ reply.kind # "json"
  \/ reply.results # <<>> /\ ~reply.results[1].ok

\* geocode that never looks into its cache.
geocode_uncached(cache, size, lg, city0, reply, t) ==
  LET city == strip(city0)
      key  == GeoKey(lg, city)
  IN IF city = <<>>
     THEN [cache |-> cache, value |-> <<>>, requests |-> 0]
     ELSE IF geocode_fails(reply) \/ reply.results = <<>>
     THEN [cache |-> cache, value |-> <<>>, requests |-> 1]
     ELSE LET res == GeoOut(reply.results[1], city)
          IN [cache |-> TTLCache_set(Pop(cache, key), size, key, res, GEO_TTL, t),
              value |-> <<res>>, requests |-> 1]

\* geocode that remembers a failure as an entry of its own.
geocode_negative(cache, size, lg, city0, reply, t) ==
  LET city == strip(city0)
      key  == GeoKey(lg, city)
      c    == TTLCache_get(cache, key, t)
      res  == GeoOut(IF geocode_fails(reply) \/ reply.results = <<>>
                     THEN GeoItem(FALSE, <<>>, 0, 0) ELSE reply.results[1], city)
  IN IF city = <<>>
     THEN [cache |-> cache, value |-> <<>>, requests |-> 0]
     ELSE IF HasKey(c.store, key)
     THEN [cache |-> c.store, value |-> <<c.value>>, requests |-> 0]
     ELSE [cache |-> TTLCache_set(c.store, size, key, res, GEO_TTL, t),
           value |-> IF geocode_fails(reply) \/ reply.results = <<>> THEN <<>> ELSE <<res>>,
           requests |-> 1]

\* WeatherClient.geocode(city0) at time t, the endpoint answering with reply
\* if asked: the cache it leaves, what it returns, the requests it sent.
geocode(cache, size, lg, city0, reply, t) ==
  LET city == strip(city0)
      key  == GeoKey(lg, city)
      c    == TTLCache_get(cache, key, t)
  IN IF city = <<>>
     THEN [cache |-> cache, value |-> <<>>, requests |-> 0]
     ELSE IF HasKey(c.store, key)
     THEN [cache |-> c.store, value |-> <<c.value>>, requests |-> 0]
     ELSE IF geocode_fails(reply) \/ reply.results = <<>>
     THEN [cache |-> c.store, value |-> <<>>, requests |-> 1]
     ELSE LET res == GeoOut(reply.results[1], city)
          IN [cache |-> TTLCache_set(c.store, size, key, res, GEO_TTL, t),
              value |-> <<res>>, requests |-> 1]

\* What the forecast endpoint did: kind "error" as above; kind "json" carries
\* the decoded body.
WxReply(kind, data) == [kind |-> kind, data |-> data]

\* A decoded forecast body: shape "dict" or "list"; current_weather is <<>>
\* when the key is missing, else <<[weathercode, temperature]>>.
Body(shape, cw) == [shape |-> shape, current_weather |-> cw]

\* The value under "weathercode": a number, a string that is no number, or
\* missing.
IntCode(v) == [kind |-> "int", v |-> v]
StrCode    == [kind |-> "str", v |-> 0]
NoCode     == [kind |-> "none", v |-> 0]

\* fetch, line 103: "out"; fetched_at is history, the time the request ended.
Snapshot(g, data, t) == [geo |-> g, raw |-> data, fetched_at |-> t]

\* WeatherClient.fetch(city0) at time t
fetch(gcache, wcache, size, lg, city0, greply, wreply, t) ==
  LET city == strip(city0)
      gc   == geocode(gcache, size, lg, city, greply, t)
      g    == gc.value[1]
      key  == WxKey(g)
      c    == TTLCache_get(wcache, key, t)
  IN IF city = <<>>
     THEN [geo_cache |-> gcache, wx_cache |-> wcache, value |-> <<>>,
           geo_requests |-> 0, wx_requests |-> 0]
     ELSE IF gc.value = <<>>
     THEN [geo_cache |-> gc.cache, wx_cache |-> wcache, value |-> <<>>,
           geo_requests |-> gc.requests, wx_requests |-> 0]
     ELSE IF HasKey(c.store, key)
     THEN [geo_cache |-> gc.cache, wx_cache |-> c.store, value |-> <<c.value>>,
           geo_requests |-> gc.requests, wx_requests |-> 0]
     ELSE IF wreply.kind # "json"
     THEN [geo_cache |-> gc.cache, wx_cache |-> c.store, value |-> <<>>,
           geo_requests |-> gc.requests, wx_requests |-> 1]
     ELSE LET res == Snapshot(g, wreply.data, t)
          IN [geo_cache |-> gc.cache,
              wx_cache |-> TTLCache_set(c.store, size, key, res, WX_TTL, t),
              value |-> <<res>>,
              geo_requests |-> gc.requests, wx_requests |-> 1]

\* ZH_WC, with the descriptions in ASCII
ZH_WC ==
  [c \in {0, 1, 2, 3, 45, 48, 51, 53, 55, 61, 63, 65, 71, 73, 75, 80, 81, 82, 95, 96, 99} |->
     CASE c = 0 -> "clear"
       [] c \in {1, 2} -> "cloudy"
       [] c = 3 -> "overcast"
       [] c = 45 -> "fog"
       [] c = 48 -> "rime"
       [] c = 51 -> "drizzle"
       [] c \in {53, 55, 61} -> "light-rain"
       [] c = 63 -> "rain"
       [] c = 65 -> "heavy-rain"
       [] c = 71 -> "light-snow"
       [] c = 73 -> "snow"
       [] c = 75 -> "heavy-snow"
       [] c \in {80, 81} -> "showers"
       [] c = 82 -> "heavy-showers"
       [] OTHER -> "thunderstorm"]

\* _desc(code): ZH_WC.get(int(code), "unknown")
desc(code) == IF code \in DOMAIN ZH_WC THEN ZH_WC[code] ELSE "unknown"

\* bubble_text, lines 113-118: the exception that leaves it, or None.
\* data.get on a body that is no dict; int() of a string that is no number.
bubble_raises(pack) ==
  IF pack.raw.shape # "dict" THEN "AttributeError"
  ELSE IF pack.raw.current_weather # <<>>
          /\ pack.raw.current_weather[1].weathercode.kind = "str"
       THEN "ValueError"
       ELSE None

\* bubble_text, lines 113-128: the sentence, for a body it does not raise on
bubble_sentence(pack, city) ==
  LET cw   == pack.raw.current_weather
      name == IF pack.geo.name # <<>> THEN pack.geo.name ELSE city
      code == IF cw = <<>> \/ cw[1].weathercode.kind = "none" THEN 0
              ELSE cw[1].weathercode.v
      temp == IF cw = <<>> THEN <<>> ELSE cw[1].temperature
      head == name \o <<SP, "*", SP, desc(code)>>
      cur  == IF temp # <<>> THEN <<SP>> \o temp \o <<"deg">> ELSE <<>>
  IN head \o cur

\* WeatherClient.bubble_text(city0) at time t
bubble_text(gcache, wcache, size, lg, city0, greply, wreply, t) ==
  LET f == fetch(gcache, wcache, size, lg, city0, greply, wreply, t)
      base == [geo_cache |-> f.geo_cache, wx_cache |-> f.wx_cache,
               geo_requests |-> f.geo_requests, wx_requests |-> f.wx_requests]
  IN IF f.value = <<>>
     THEN base @@ [value |-> <<>>, raised |-> None]
     ELSE IF bubble_raises(f.value[1]) # None
     THEN base @@ [value |-> <<>>, raised |-> bubble_raises(f.value[1])]
     ELSE base @@ [value |-> <<bubble_sentence(f.value[1], city0)>>, raised |-> None]

\* ------------------------------------------------------------------ WeatherClient on its own
Langs == {"zh", "en"}
\* the city argument: empty, blank, a name, the same name after a blank, another name
Cities == {<<>>, <<SP>>, <<"P">>, <<SP, "P">>, <<"Q">>}
CityKeys == {strip(c) : c \in Cities} \ {<<>>}

\* Two places whose coordinates round to the same key
GeoItems ==
  {GeoItem(TRUE, <<>>, 10000, 0), GeoItem(TRUE, <<"N">>, 10004, 0)}

GeoReplies ==
  {GeoReply("error", <<>>), GeoReply("json", <<>>),
   GeoReply("json", <<GeoItem(FALSE, <<>>, 0, 0)>>)}
    \cup {GeoReply("json", <<it>>) : it \in GeoItems}

Bodies ==
  {Body("list", <<>>), Body("dict", <<>>),
   Body("dict", <<[weathercode |-> IntCode(0), temperature |-> <<"21">>]>>),
   Body("dict", <<[weathercode |-> IntCode(7), temperature |-> <<>>]>>),
   Body("dict", <<[weathercode |-> StrCode, temperature |-> <<>>]>>)}

WxReplies == {WxReply("error", Body("dict", <<>>))} \cup {WxReply("json", b) : b \in Bodies}

NeverGeo == [set |-> FALSE, value |-> <<>>, at |-> 0, evicted |-> FALSE]

\* The client as built, at time 0.  max_size is 256 in the program; the
\* smaller sizes stand for it where a full cache has to be reached with the
\* few cities explored.
WeatherBuilt(sizes) ==
  /\ w_pc = "on"
  /\ lang \in Langs
  /\ geo_cache = <<>> /\ wx_cache = <<>>
  /\ w_max_size \in sizes
  /\ w_ticks = 0
  /\ w_last = NoCall
  /\ geo_hist = [k \in CityKeys |-> NeverGeo]
  /\ StripOff /\ AskOff /\ CacheOff /\ ReadyOff /\ GuiOff

\* geo_hist after a call that took the geocode cache from before to after and
\* in which geocode(city0) returned value after sending requests requests
GeoHistAfter(before, after, city0, value, requests) ==
  [k \in CityKeys |->
     IF k = strip(city0) /\ requests = 1 /\ value # <<>>
     THEN [set |-> TRUE, value |-> value, at |-> now, evicted |-> FALSE]
     ELSE IF HasKey(before, GeoKey(lang, k)) /\ ~HasKey(after, GeoKey(lang, k))
          THEN [geo_hist[k] EXCEPT !.evicted = TRUE]
          ELSE geo_hist[k]]

\* client.geocode(c)
Geocode(c, gr) ==
  /\ w_pc = "on"
  /\ \E r \in {geocode(geo_cache, w_max_size, lang, c, gr, now)} :
        /\ geo_cache' = r.cache
        /\ w_last' = [op |-> "geocode", city |-> c, value |-> r.value, raised |-> None,
                      at |-> now, geo_requests |-> r.requests, wx_requests |-> 0]
        /\ geo_hist' = GeoHistAfter(geo_cache, r.cache, c, r.value, r.requests)
  /\ UNCHANGED <<w_pc, lang, wx_cache, w_max_size, w_ticks,
                 strip_vars, ask_vars, cache_vars, ready_vars, gui_vars>>

\* What geocode(c) returns inside fetch(c), read back from the cache it left
GeoInside(after, c) ==
  IF HasKey(after, GeoKey(lang, strip(c))) THEN <<Item(after, GeoKey(lang, strip(c))).value>>
  ELSE <<>>

\* client.fetch(c)
Fetch(c, gr, wr) ==
  /\ w_pc = "on"
  /\ \E r \in {fetch(geo_cache, wx_cache, w_max_size, lang, c, gr, wr, now)} :
        /\ geo_cache' = r.geo_cache
        /\ wx_cache' = r.wx_cache
        /\ w_last' = [op |-> "fetch", city |-> c, value |-> r.value, raised |-> None,
                      at |-> now, geo_requests |-> r.geo_requests,
                      wx_requests |-> r.wx_requests]
        /\ geo_hist' = GeoHistAfter(geo_cache, r.geo_cache, c,
                                    GeoInside(r.geo_cache, c), r.geo_requests)
  /\ UNCHANGED <<w_pc, lang, w_max_size, w_ticks,
                 strip_vars, ask_vars, cache_vars, ready_vars, gui_vars>>

\* client.bubble_text(c)
BubbleText(c, gr, wr) ==
  /\ w_pc = "on"
  /\ \E r \in {bubble_text(geo_cache, wx_cache, w_max_size, lang, c, gr, wr, now)} :
        /\ geo_cache' = r.geo_cache
        /\ wx_cache' = r.wx_cache
        /\ w_last' = [op |-> "bubble_text", city |-> c, value |-> r.value,
                      raised |-> r.raised, at |-> now,
                      geo_requests |-> r.geo_requests, wx_requests |-> r.wx_requests]
        /\ geo_hist' = GeoHistAfter(geo_cache, r.geo_cache, c,
                                    GeoInside(r.geo_cache, c), r.geo_requests)
  /\ UNCHANGED <<w_pc, lang, w_max_size, w_ticks,
                 strip_vars, ask_vars, cache_vars, ready_vars, gui_vars>>

\* time.time() moves on by d
WxTick(d) ==
  /\ w_pc = "on"
  /\ w_ticks < MaxWxTicks
  /\ now' = now + d
  /\ w_ticks' = w_ticks + 1
  /\ UNCHANGED <<w_pc, lang, geo_cache, wx_cache, w_max_size, w_last, geo_hist,
                 c_pc, store, max_size, last_op, last_set,
                 strip_vars, ask_vars, ready_vars, gui_vars>>

\* geocode on its own: any city, a cache of 256 entries and one that the two
\* cities explored fill up, the clock moving by a second or by the lifetime
\* of a geocode entry
GeocodeInit == WeatherBuilt({1, DEFAULT_MAX_SIZE})

GeocodeNext ==
  \/ \E c \in Cities, gr \in GeoReplies : Geocode(c, gr)
  \/ \E d \in {1, GEO_TTL} : WxTick(d)

SpecGeocode == GeocodeInit /\ [][GeocodeNext]_vars

\* fetch and bubble_text: one city in its spellings, a geocoder that fails
\* or finds it, the clock moving by a second or by the lifetime of a snapshot
WeatherInit == WeatherBuilt({DEFAULT_MAX_SIZE})

WeatherCities == {<<>>, <<SP>>, <<SP, "P">>}
WeatherGeoReplies ==
  {GeoReply("error", <<>>), GeoReply("json", <<>>)}
    \cup {GeoReply("json", <<it>>) : it \in GeoItems}

WeatherNext ==
  \/ \E c \in WeatherCities, gr \in WeatherGeoReplies, wr \in WxReplies : Fetch(c, gr, wr)
  \/ \E c \in WeatherCities, gr \in WeatherGeoReplies, wr \in WxReplies : BubbleText(c, gr, wr)
  \/ \E d \in {1, WX_TTL} : WxTick(d)

SpecWeather == WeatherInit /\ [][WeatherNext]_vars

\* ------------------------------------------------------------------ banana/client.py, ensure_ready
\* A name of a model is a sequence of characters.
\* sub in s, for strings
Substring(sub, s) ==
  \E i \in 1..(Len(s) + 1) :
    /\ i + Len(sub) - 1 <= Len(s)
    /\ \A j \in 1..Len(sub) : s[i + j - 1] = sub[j]

\* name.split(":")[0]
base_name(name) ==
  IF \E i \in 1..Len(name) : name[i] = ":"
  THEN SubSeq(name, 1, Min({i \in 1..Len(name) : name[i] = ":"}) - 1)
  ELSE name

\* What GET /api/tags did for the model query: kind "error" is a failed
\* request or a body .json().get cannot read, kind "json" carries the name of
\* each entry of "models" (<<>> for an entry without one).
Listing(kind, names) == [kind |-> kind, names |-> names]

\* lines 146-155: have
have(model, l) ==
  /\ l.kind = "json"
  /\ \E i \in 1..Len(l.names) : Substring(base_name(model), l.names[i])

\* One probe of reachable(): what it returned and how long it took.
Probe(up, took) == [up |-> up, took |-> took]

\* One line of the pull stream: blank, not JSON ("junk"), JSON that is no
\* object ("scalar"), or a status event, a JSON object, with its "completed"
\* and "total" (<<n>> for an int, <<>> for anything else).
Line(kind, completed, total) == [kind |-> kind, completed |-> completed, total |-> total]

\* int(x / y) for y > 0: the quotient cut towards zero
trunc_div(x, y) == IF x >= 0 THEN x \div y ELSE -((-x) \div y)

\* line 170: pct
pct(ln) ==
  IF ln.completed # <<>> /\ ln.total # <<>> /\ ln.total[1] > 0
  THEN <<trunc_div(ln.completed[1] * 100, ln.total[1])>>
  ELSE <<>>

\* What POST /api/pull did: kind "error" is a failed request, kind "status" an
\* answer raise_for_status rejects, kind "stream" carries the lines received
\* before the stream ended or the connection broke.
PullReply(kind, lines) == [kind |-> kind, lines |-> lines]

\* the window still open on leaving one round of the polling loop (line 141)
in_window(t, t0, wait) == t - t0 < wait * 10

\* time.sleep(1.2)
after_sleep_frozen(t) == t
after_sleep(t) == t + SLEEP_TENTHS

\* ------------------------------------------------------------------ ensure_ready on its own
Systems_OS == {"Darwin", "Linux"}
WaitSecs == (0..MaxWait) \cup {DEFAULT_WAIT_SEC}
ModelNames == {<<"q", ":", "x">>, <<"q">>}
InstalledNames == {<<>>, <<"q", ":", "x">>, <<"q", "q", ":", "x">>, <<"m", ":", "x">>}
Callbacks == {None, "returns", "raises"}
Probes == {Probe(TRUE, 0), Probe(FALSE, 0), Probe(FALSE, PROBE_TIMEOUT_TENTHS)}
Listings == {Listing("error", <<>>)} \cup {Listing("json", ns) : ns \in TextsOver(InstalledNames, MaxTags)}
Lines ==
  {Line("blank", <<>>, <<>>), Line("junk", <<>>, <<>>), Line("scalar", <<>>, <<>>),
   Line("event", <<>>, <<>>), Line("event", <<1>>, <<3>>), Line("event", <<1>>, <<0>>),
   Line("event", <<-1>>, <<3>>)}
PullReplies ==
  {PullReply("error", <<>>), PullReply("status", <<>>)}
    \cup {PullReply("stream", ls) : ls \in TextsOver(Lines, MaxStream)}

ReadyInit ==
  /\ r_pc = "start"
  /\ r_os \in Systems_OS
  /\ wait_sec \in WaitSecs
  /\ model_name \in ModelNames
  /\ on_progress \in Callbacks
  /\ r_clock = 0 /\ r_t0 = 0 /\ r_seen_up = FALSE /\ r_polled = FALSE /\ r_probes = 0
  /\ r_have = FALSE /\ r_lists = 0 /\ r_pulls = <<>> /\ r_stream = <<>> /\ r_calls = <<>>
  /\ r_result = FALSE
  /\ sup_pc = "off" /\ sup_last = NoSupport
  /\ StripOff /\ AskOff /\ CacheOff /\ WeatherOff /\ GuiOff

\* ensure_ready returns v
Return(v) == r_pc' = "returned" /\ r_result' = v

\* lines 134-139: the first probe; on macOS an unreachable server is launched
\* (a failure of Popen is swallowed) and t0 is taken
ReadyStart(p) ==
  /\ r_pc = "start"
  /\ r_probes' = r_probes + 1
  /\ r_clock' = r_clock + p.took
  /\ r_seen_up' = p.up
  /\ IF ~p.up /\ r_os = "Darwin"
     THEN /\ r_pc' = "poll" /\ r_t0' = r_clock' /\ r_polled' = TRUE
     ELSE /\ r_pc' = "check" /\ UNCHANGED <<r_t0, r_polled>>
  /\ UNCHANGED <<r_os, wait_sec, model_name, on_progress, r_have, r_lists, r_pulls,
                 r_stream, r_calls, r_result, sup_pc, sup_last,
                 strip_vars, ask_vars, cache_vars, weather_vars, gui_vars>>

\* lines 141-142: one test of the loop condition, and the sleep when it holds
ReadyPoll(p) ==
  /\ r_pc = "poll"
  /\ r_probes' = r_probes + 1
  /\ r_seen_up' = (r_seen_up \/ p.up)
  /\ IF ~p.up /\ in_window(r_clock + p.took, r_t0, wait_sec)
     THEN /\ r_clock' = after_sleep(r_clock + p.took)
          /\ r_pc' = "poll"
     ELSE /\ r_clock' = r_clock + p.took
          /\ r_pc' = "check"
  /\ UNCHANGED <<r_os, wait_sec, model_name, on_progress, r_t0, r_polled, r_have, r_lists,
                 r_pulls, r_stream, r_calls, r_result, sup_pc, sup_last,
                 strip_vars, ask_vars, cache_vars, weather_vars, gui_vars>>

\* a deciding probe that lets the call go on although the server is down.
ReadyCheck_lenient(p) ==
  /\ r_pc = "check"
  /\ r_probes' = r_probes + 1
  /\ r_clock' = r_clock + p.took
  /\ r_seen_up' = (r_seen_up \/ p.up)
  /\ r_pc' = "list" /\ r_result' = r_result
  /\ UNCHANGED <<r_os, wait_sec, model_name, on_progress, r_t0, r_polled, r_have, r_lists,
                 r_pulls, r_stream, r_calls, sup_pc, sup_last,
                 strip_vars, ask_vars, cache_vars, weather_vars, gui_vars>>

\* lines 144-145: the probe that decides
ReadyCheck(p) ==
  /\ r_pc = "check"
  /\ r_probes' = r_probes + 1
  /\ r_clock' = r_clock + p.took
  /\ r_seen_up' = (r_seen_up \/ p.up)
  /\ IF p.up THEN r_pc' = "list" /\ r_result' = r_result
     ELSE Return(FALSE)
  /\ UNCHANGED <<r_os, wait_sec, model_name, on_progress, r_t0, r_polled, r_have, r_lists,
                 r_pulls, r_stream, r_calls, sup_pc, sup_last,
                 strip_vars, ask_vars, cache_vars, weather_vars, gui_vars>>

\* lines 147-156: the model query
ReadyList(l) ==
  /\ r_pc = "list"
  /\ r_lists' = r_lists + 1
  /\ r_have' = have(model_name, l)
  /\ IF r_have' THEN Return(TRUE)
     ELSE r_pc' = "pull" /\ r_result' = r_result
  /\ UNCHANGED <<r_os, wait_sec, model_name, on_progress, r_clock, r_t0, r_seen_up, r_polled,
                 r_probes,
                 r_pulls, r_stream, r_calls, sup_pc, sup_last,
                 strip_vars, ask_vars, cache_vars, weather_vars, gui_vars>>

\* a pull that fails makes ensure_ready return False.
ReadyPull_strict(pr) ==
  /\ r_pc = "pull"
  /\ r_pulls' = Append(r_pulls, model_name)
  /\ IF pr.kind = "stream"
     THEN /\ r_pc' = "stream" /\ r_result' = r_result
          /\ r_stream' = pr.lines
     ELSE /\ Return(FALSE)
          /\ r_stream' = r_stream
  /\ UNCHANGED <<r_os, wait_sec, model_name, on_progress, r_clock, r_t0, r_seen_up, r_polled,
                 r_probes, r_have, r_lists, r_calls, sup_pc, sup_last,
                 strip_vars, ask_vars, cache_vars, weather_vars, gui_vars>>

\* lines 158-162: the pull request is posted and answered
ReadyPull(pr) ==
  /\ r_pc = "pull"
  /\ r_pulls' = Append(r_pulls, model_name)
  /\ IF pr.kind = "stream"
     THEN /\ r_pc' = "stream" /\ r_result' = r_result
          /\ r_stream' = pr.lines
     ELSE /\ Return(TRUE)
          /\ r_stream' = r_stream
  /\ UNCHANGED <<r_os, wait_sec, model_name, on_progress, r_clock, r_t0, r_seen_up, r_polled,
                 r_probes,
                 r_have, r_lists, r_calls, sup_pc, sup_last,
                 strip_vars, ask_vars, cache_vars, weather_vars, gui_vars>>

\* lines 163-177: one line of the stream is read, or the stream is over (ended
\* or broken); a line that is an event is handed to on_progress, and what
\* on_progress raises ends the reading, as does the AttributeError of j.get
\* on a line that is JSON but no object (line 169)
ReadyLine ==
  /\ r_pc = "stream"
  /\ IF r_stream = <<>>
     THEN /\ Return(TRUE)
          /\ UNCHANGED <<r_stream, r_calls>>
     ELSE LET ln == Head(r_stream)
              called == ln.kind = "event" /\ on_progress # None
          IN /\ r_calls' = IF called
                           THEN Append(r_calls, [completed |-> ln.completed,
                                                 total |-> ln.total, pct |-> pct(ln)])
                           ELSE r_calls
             /\ IF ln.kind = "scalar" \/ (called /\ on_progress = "raises")
                THEN Return(TRUE) /\ r_stream' = <<>>
                ELSE r_pc' = "stream" /\ r_result' = r_result /\ r_stream' = Tail(r_stream)
  /\ UNCHANGED <<r_os, wait_sec, model_name, on_progress, r_clock, r_t0, r_seen_up, r_polled,
                 r_probes,
                 r_have, r_lists, r_pulls, sup_pc, sup_last,
                 strip_vars, ask_vars, cache_vars, weather_vars, gui_vars>>

ReadyNext ==
  \/ \E p \in Probes : ReadyStart(p)
  \/ \E p \in Probes : ReadyPoll(p)
  \/ \E p \in Probes : ReadyCheck(p)
  \/ \E l \in Listings : ReadyList(l)
  \/ \E pr \in PullReplies : ReadyPull(pr)
  \/ ReadyLine

SpecReady == ReadyInit /\ [][ReadyNext]_vars

\* One call of ask or one call of ensure_ready, each step of which is taken
\* in the end: a request is answered or times out, a sleep ends. How long a
\* call runs depends on the number of requests, probes and stream lines, not
\* on their texts: the prompts are the short ones, a stream line is blank or
\* an event.
TerminateLines == {Line("blank", <<>>, <<>>), Line("event", <<1>>, <<3>>)}
TerminatePullReplies ==
  {PullReply("error", <<>>), PullReply("status", <<>>)}
    \cup {PullReply("stream", ls) : ls \in TextsOver(TerminateLines, MaxStream)}
TerminateInit == (AskInit /\ Len(prompt) <= 1) \/ ReadyInit
TerminateReadyNext ==
  \/ \E p \in Probes : ReadyStart(p)
  \/ \E p \in Probes : ReadyPoll(p)
  \/ \E p \in Probes : ReadyCheck(p)
  \/ \E l \in Listings : ReadyList(l)
  \/ \E pr \in TerminatePullReplies : ReadyPull(pr)
  \/ ReadyLine
TerminateNext == AskNext \/ TerminateReadyNext
SpecTerminate ==
  TerminateInit /\ [][TerminateNext]_vars /\ WF_vars(AskNext) /\ WF_vars(TerminateReadyNext)

\* ------------------------------------------------------------------ is_available, list_models, unload
\* What the server did on the one request of a supporting call: kind "error"
\* is a request that raised, "status" an answer that is not ok, "badjson" an
\* ok answer whose body is no JSON, "json" an ok answer with the arrays under
\* "models" and under "data" (<<>> when the key is missing or the array
\* empty); is_available and unload look at the kind only.
SupportReply(kind, models, data) == [kind |-> kind, models |-> models, data |-> data]

\* One entry of such an array, an absent "name" or "model" written <<>>
TagEntry(name, model) == [name |-> name, model |-> model]

\* r.ok of the answer, False when the request raised (lines 14-18, 104-106)
ok_or_false(reply) == reply.kind \in {"badjson", "json"}

\* list_models that reads "models" only.
list_models_models_only(reply) ==
  IF reply.kind # "json" THEN <<>>
  ELSE LET named == SelectSeq(reply.models, LAMBDA m : m.name # <<>> \/ m.model # <<>>)
       IN [i \in 1..Len(named) |->
             IF named[i].name # <<>> THEN named[i].name ELSE named[i].model]

\* list_models, lines 21-33
list_models(reply) ==
  IF reply.kind # "json" THEN <<>>
  ELSE LET models == IF reply.models # <<>> THEN reply.models ELSE reply.data
           named  == SelectSeq(models, LAMBDA m : m.name # <<>> \/ m.model # <<>>)
       IN [i \in 1..Len(named) |->
             IF named[i].name # <<>> THEN named[i].name ELSE named[i].model]

TagEntries == {TagEntry(n, m) : n \in {<<>>, <<"q">>}, m \in {<<>>, <<"m">>}}
SupportReplies ==
  {SupportReply(k, <<>>, <<>>) : k \in {"error", "status", "badjson"}}
    \cup {SupportReply("json", ms, ds) : ms \in TextsOver(TagEntries, MaxEntries),
                                         ds \in TextsOver(TagEntries, MaxEntries)}

SupportInit ==
  /\ sup_pc = "on" /\ sup_last = NoSupport
  /\ r_pc = "off" /\ r_os = "Darwin" /\ wait_sec = DEFAULT_WAIT_SEC
  /\ model_name = <<>> /\ on_progress = None
  /\ r_clock = 0 /\ r_t0 = 0 /\ r_seen_up = FALSE /\ r_polled = FALSE /\ r_probes = 0
  /\ r_have = FALSE /\ r_lists = 0 /\ r_pulls = <<>> /\ r_stream = <<>> /\ r_calls = <<>>
  /\ r_result = FALSE
  /\ StripOff /\ AskOff /\ CacheOff /\ WeatherOff /\ GuiOff

SupportFrame ==
  UNCHANGED <<r_pc, r_os, wait_sec, model_name, on_progress, r_clock, r_t0,
              r_seen_up, r_polled, r_probes, r_have, r_lists, r_pulls, r_stream, r_calls,
              r_result, strip_vars, ask_vars, cache_vars, weather_vars, gui_vars>>

\* client.is_available()
IsAvailable(reply) ==
  /\ sup_pc = "on" /\ sup_pc' = "returned"
  /\ sup_last' = [op |-> "is_available", reply |-> reply, value |-> ok_or_false(reply),
                  requests |-> 1]
  /\ SupportFrame

\* client.list_models()
ListModels(reply) ==
  /\ sup_pc = "on" /\ sup_pc' = "returned"
  /\ sup_last' = [op |-> "list_models", reply |-> reply, value |-> list_models(reply),
                  requests |-> 1]
  /\ SupportFrame

\* client.unload()
Unload(reply) ==
  /\ sup_pc = "on" /\ sup_pc' = "returned"
  /\ sup_last' = [op |-> "unload", reply |-> reply, value |-> ok_or_false(reply),
                  requests |-> 1]
  /\ SupportFrame

\* One call on a client built and not yet used
SupportNext ==
  \/ sup_pc = "on" /\ \E reply \in SupportReplies : IsAvailable(reply)
  \/ sup_pc = "on" /\ \E reply \in SupportReplies : ListModels(reply)
  \/ sup_pc = "on" /\ \E reply \in SupportReplies : Unload(reply)

SpecSupport == SupportInit /\ [][SupportNext]_vars

\* ------------------------------------------------------------------ banana/app.py, PetWindow: auto-bubbling
\* Time is counted in steps of RESUME_MIN_MS, the smallest delay of the
\* program, and every deadline is held as the time still to go: busy_left is
\* max(0, _busy_until_ms - now), an armed timer holds the steps to its
\* timeout, a cooldown the steps until "now - last >= COOLDOWN" holds.
Steps(ms) == (ms + RESUME_MIN_MS - 1) \div RESUME_MIN_MS

SILENCE == Steps(SILENCE_AFTER_CHAT)

\* random.randint(self.AUTO_MIN_MS, self.AUTO_MAX_MS), the two ends
AutoDelays == {Steps(AUTO_MIN_MS), Steps(AUTO_MAX_MS)}
\* random.randint(60_000, 120_000), the two ends
ResumeDelays == {Steps(RESUME_MIN_MS), Steps(RESUME_MAX_MS)}

\* One _ask thread: where it stands, and the _resume callback it has left
\* behind (<<n>>: due in n steps).
Worker(wpc, resume) == [pc |-> wpc, resume |-> resume]
IdleWorker == Worker("idle", <<>>)

\* self.input_bar.isVisible(): a bar that fades out is visible until the
\* fade has ended
isVisible(bar) == bar # "hidden"

\* a countdown one step later
Dec(n) == IF n > 0 THEN n - 1 ELSE 0
\* an age one step later, counted up to the silence window
Older(a) == IF a = <<>> THEN <<>> ELSE <<IF a[1] < SILENCE THEN a[1] + 1 ELSE SILENCE>>

GuiInit ==
  /\ g_pc = "on"
  /\ settings_auto_bubble \in BOOLEAN
  /\ busy_left = 0
  /\ auto_timer \in IF settings_auto_bubble THEN {<<d>> : d \in AutoDelays} ELSE {<<>>}
  /\ input_bar = "hidden"
  /\ workers = [i \in 1..MaxSubmits |-> IdleWorker]
  /\ say_queue = <<>>
  /\ weather_cd = 0 /\ random_cd = 0
  /\ since_click = <<>> /\ since_reply = <<>> /\ last_auto = "none"
  /\ StripOff /\ AskOff /\ CacheOff /\ WeatherOff /\ ReadyOff

GuiRest == <<strip_vars, ask_vars, cache_vars, weather_vars, ready_vars>>

\* on_click, lines 284-299
OnClick ==
  /\ g_pc = "on"
  /\ busy_left' = SILENCE
  /\ auto_timer' = <<>>
  /\ input_bar' = IF input_bar = "hidden" THEN "shown" ELSE input_bar
  /\ since_click' = <<0>>
  /\ UNCHANGED <<g_pc, settings_auto_bubble, workers, say_queue, weather_cd, random_cd,
                 since_reply, last_auto, GuiRest>>

\* InputBar.keyPressEvent on Escape: hide_with_fade
Escape ==
  /\ g_pc = "on"
  /\ input_bar = "shown"
  /\ input_bar' = "fading"
  /\ UNCHANGED <<g_pc, settings_auto_bubble, busy_left, auto_timer, workers, say_queue,
                 weather_cd, random_cd, since_click, since_reply, last_auto, GuiRest>>

\* the fade has ended: hide
FadeDone ==
  /\ g_pc = "on"
  /\ input_bar = "fading"
  /\ input_bar' = "hidden"
  /\ UNCHANGED <<g_pc, settings_auto_bubble, busy_left, auto_timer, workers, say_queue,
                 weather_cd, random_cd, since_click, since_reply, last_auto, GuiRest>>

\* InputBar._submit with a text that is not blank, and _handle_user_submit,
\* lines 355-382: the bar fades out and the thread _ask is started
Submit(i) ==
  /\ g_pc = "on"
  /\ input_bar = "shown"
  /\ workers[i].pc = "idle" /\ \A j \in 1..(i - 1) : workers[j].pc # "idle"
  /\ input_bar' = "fading"
  /\ workers' = [workers EXCEPT ![i].pc = "asking"]
  /\ UNCHANGED <<g_pc, settings_auto_bubble, busy_left, auto_timer, say_queue,
                 weather_cd, random_cd, since_click, since_reply, last_auto, GuiRest>>

\* _ask, lines 370-371: client.ask returns and sigSay is emitted, the call of
\* say waiting in the event loop of the window
AskReturns(i) ==
  /\ g_pc = "on"
  /\ workers[i].pc = "asking"
  /\ workers' = [workers EXCEPT ![i].pc = "emitted"]
  /\ say_queue' = Append(say_queue, i)
  /\ UNCHANGED <<g_pc, settings_auto_bubble, busy_left, auto_timer, input_bar,
                 weather_cd, random_cd, since_click, since_reply, last_auto, GuiRest>>

\* _ask, line 370: client.ask raises (a request that fails, _post_chat
\* catching nothing) and the thread ends there
AskRaises(i) ==
  /\ g_pc = "on"
  /\ workers[i].pc = "asking"
  /\ workers' = [workers EXCEPT ![i].pc = "died"]
  /\ UNCHANGED <<g_pc, settings_auto_bubble, busy_left, auto_timer, input_bar, say_queue,
                 weather_cd, random_cd, since_click, since_reply, last_auto, GuiRest>>

\* _ask, line 373
MarkBusy(i) ==
  /\ g_pc = "on"
  /\ workers[i].pc = "emitted"
  /\ busy_left' = SILENCE
  /\ workers' = [workers EXCEPT ![i].pc = "marked"]
  /\ UNCHANGED <<g_pc, settings_auto_bubble, auto_timer, input_bar, say_queue,
                 weather_cd, random_cd, since_click, since_reply, last_auto, GuiRest>>

\* _ask, line 380: QTimer.singleShot(SILENCE_AFTER_CHAT, _resume), called in a
\* thread that runs no event loop: the timer is armed, or it is not
ScheduleResume(i, armed) ==
  /\ g_pc = "on"
  /\ workers[i].pc = "marked"
  /\ workers' = [workers EXCEPT ![i] = Worker("done", IF armed THEN <<SILENCE>> ELSE <<>>)]
  /\ UNCHANGED <<g_pc, settings_auto_bubble, busy_left, auto_timer, input_bar, say_queue,
                 weather_cd, random_cd, since_click, since_reply, last_auto, GuiRest>>

\* _resume, lines 375-378
Resume(i, d) ==
  /\ g_pc = "on"
  /\ workers[i].resume = <<0>>
  /\ busy_left' = 0
  /\ auto_timer' = <<d>>
  /\ workers' = [workers EXCEPT ![i].resume = <<>>]
  /\ UNCHANGED <<g_pc, settings_auto_bubble, input_bar, say_queue,
                 weather_cd, random_cd, since_click, since_reply, last_auto, GuiRest>>

\* say, lines 277-282, called for the reply of a submission
Say ==
  /\ g_pc = "on"
  /\ say_queue # <<>>
  /\ say_queue' = Tail(say_queue)
  /\ since_reply' = <<0>>
  /\ UNCHANGED <<g_pc, settings_auto_bubble, busy_left, auto_timer, input_bar, workers,
                 weather_cd, random_cd, since_click, last_auto, GuiRest>>

\* toggle_auto, lines 160-166
ToggleAuto(d) ==
  /\ g_pc = "on"
  /\ settings_auto_bubble' = ~settings_auto_bubble
  /\ auto_timer' = IF settings_auto_bubble' THEN <<d>> ELSE <<>>
  /\ UNCHANGED <<g_pc, busy_left, input_bar, workers, say_queue,
                 weather_cd, random_cd, since_click, since_reply, last_auto, GuiRest>>

\* auto_bubble, line 310
quiet(bar, busy) == isVisible(bar) \/ busy > 0

\* auto_bubble, lines 304-353, run by the timeout of auto_timer. choice is
\* the range random.random() fell in, text whether weather.by_city gave a
\* text for a configured city, available what client.is_available() said.
\* last_auto: "off" the setting is off, "deferred" bar or silence, "shown" a
\* bubble was shown, "thread" the thread _work was started (its reply is said
\* later), "nothing" every branch was held back.
AutoBubble(choice, text, available, d) ==
  /\ g_pc = "on"
  /\ auto_timer = <<0>>
  /\ IF ~settings_auto_bubble
     THEN /\ auto_timer' = <<>> /\ last_auto' = "off"
          /\ UNCHANGED <<weather_cd, random_cd>>
     ELSE /\ auto_timer' = <<d>>
          /\ IF quiet(input_bar, busy_left)
             THEN last_auto' = "deferred" /\ UNCHANGED <<weather_cd, random_cd>>
             ELSE IF choice = "time"
             THEN last_auto' = "shown" /\ UNCHANGED <<weather_cd, random_cd>>
             ELSE IF choice = "weather" /\ weather_cd = 0
             THEN /\ last_auto' = IF text THEN "shown" ELSE "nothing"
                  /\ weather_cd' = IF text THEN Steps(WEATHER_COOLDOWN) ELSE 0
                  /\ random_cd' = random_cd
             ELSE IF random_cd = 0
             THEN /\ last_auto' = IF available THEN "thread" ELSE "shown"
                  /\ random_cd' = Steps(RANDOM_COOLDOWN)
                  /\ weather_cd' = weather_cd
             ELSE last_auto' = "nothing" /\ UNCHANGED <<weather_cd, random_cd>>
  /\ UNCHANGED <<g_pc, settings_auto_bubble, busy_left, input_bar, workers, say_queue,
                 since_click, since_reply, GuiRest>>

\* something is due now: a timer at its timeout, a call waiting in the event
\* loop, a statement of _ask after the reply, the end of the fade
Due ==
  \/ auto_timer = <<0>>
  \/ \E i \in 1..MaxSubmits : workers[i].resume = <<0>> \/ workers[i].pc \in {"emitted", "marked"}
  \/ say_queue # <<>>
  \/ input_bar = "fading"

\* time.time() moves on by one step
GuiTick ==
  /\ g_pc = "on"
  /\ ~Due
  /\ busy_left' = Dec(busy_left)
  /\ auto_timer' = IF auto_timer = <<>> THEN <<>> ELSE <<Dec(auto_timer[1])>>
  /\ workers' = [i \in 1..MaxSubmits |->
                   IF workers[i].resume = <<>> THEN workers[i]
                   ELSE [workers[i] EXCEPT !.resume = <<Dec(workers[i].resume[1])>>]]
  /\ weather_cd' = Dec(weather_cd) /\ random_cd' = Dec(random_cd)
  /\ since_click' = Older(since_click) /\ since_reply' = Older(since_reply)
  /\ UNCHANGED <<g_pc, settings_auto_bubble, input_bar, say_queue, last_auto, GuiRest>>

Choices == {"time", "weather", "random"}

\* what the user does
GuiUser ==
  \/ OnClick
  \/ Escape
  \/ \E i \in 1..MaxSubmits : Submit(i)
  \/ \E d \in AutoDelays : ToggleAuto(d)

\* what the threads _ask do
GuiWorker ==
  \/ \E i \in 1..MaxSubmits : AskReturns(i)
  \/ \E i \in 1..MaxSubmits : AskRaises(i)
  \/ \E i \in 1..MaxSubmits : MarkBusy(i)
  \/ \E i \in 1..MaxSubmits, armed \in BOOLEAN : ScheduleResume(i, armed)

\* what the event loop of the window runs
GuiLoop ==
  \/ FadeDone
  \/ Say
  \/ \E i \in 1..MaxSubmits, d \in ResumeDelays : Resume(i, d)
  \/ \E c \in Choices, text \in BOOLEAN, available \in BOOLEAN, d \in AutoDelays :
       AutoBubble(c, text, available, d)

GuiNext == GuiUser \/ GuiWorker \/ GuiLoop \/ GuiTick

SpecGui == GuiInit /\ [][GuiNext]_vars

\* The same with every thread running on, every due event run and the time
\* passing; the user is free to do nothing.
SpecGuiFair ==
  SpecGui /\ WF_vars(GuiWorker) /\ WF_vars(GuiLoop) /\ WF_vars(GuiTick)

\* ------------------------------------------------------------------ claims on ask
Transport(r) == r.kind \in {"refused", "timeout"}

\* The server answered with a content that is empty or sanitizes to empty.
EmptyAnswer(r) == r.kind = "json" /\ r.error = <<>> /\ strip_thinking(r.body) = <<>>

\* The server answered with a content that sanitizes to a text.
TextAnswer(r) == r.kind = "json" /\ strip_thinking(r.body) # <<>>

\* C1: ask never raises to its caller, whatever the server does on its requests.
C1_NeverRaises == pc # "raised"

\* C2: a transport failure of a chat request counts as an empty response: after
\* one on attempt 1 the second request is sent, after one on attempt 2 ask
\* returns a fallback string.
C2_TransportIsEmpty ==
  /\ (Len(replies) = 1 /\ Transport(replies[1])) => (pc = "wait2" /\ Len(sent) = 2)
  /\ (Len(replies) = 2 /\ Transport(replies[2])) => (pc = "returned" /\ result \in Fallbacks)

\* C3: when attempt 1 is answered with a content that sanitizes to empty, a
\* second request is sent; when attempt 2 is then answered with a content that
\* sanitizes to a text, ask returns that text, having sent exactly 2 requests.
C3_RetryReturnsSecond ==
  /\ (Len(replies) >= 1 /\ EmptyAnswer(replies[1])) => Len(sent) = 2
  /\ (Len(replies) = 2 /\ EmptyAnswer(replies[1]) /\ TextAnswer(replies[2]))
       => /\ pc = "returned"
          /\ result = strip_thinking(replies[2].body)
          /\ result \notin Fallbacks
          /\ Len(sent) = 2

\* An answer of markup only, then an answer whose markup was stripped.
C3_Witness ==
  /\ pc = "returned"
  /\ Len(replies) = 2
  /\ EmptyAnswer(replies[1]) /\ replies[1].body # <<>>
  /\ TextAnswer(replies[2]) /\ result # replies[2].body

\* C4: the requests of one call are sequential and at most 2: the second is
\* sent only once the first has ended and its sanitized result was seen empty,
\* and a first result that is a text is returned with no second request.
C4_SequentialBounded ==
  /\ Len(sent) <= 2
  /\ Len(sent) - Len(replies) \in {0, 1}
  /\ Len(sent) = 2 => (Len(replies) >= 1 /\ Len(cleans) >= 1 /\ cleans[1] = <<>>)
  /\ (Len(cleans) >= 1 /\ cleans[1] # <<>>)
       => (pc = "returned" /\ result = cleans[1] /\ Len(sent) = 1)

\* The second request in flight, after a first result that sanitized to empty
\* from a reply that was not empty.
C4_Witness ==
  /\ pc = "wait2" /\ Len(sent) = 2 /\ Len(replies) = 1
  /\ post_chat(replies[1]) # <<>>

HasGreeting(p) == \E i \in 1..Len(p) : p[i] \in GreetingKeywords
HasWeather(p)  == \E i \in 1..Len(p) : p[i] = WeatherKeyword

\* C5: when both attempts sanitize to empty, ask returns the canned reply the
\* prompt alone selects: greeting keyword first, then the weather keyword, then
\* a trimmed length under 10, then the generic reply.
C5_FallbackPrecedence ==
  (pc = "returned" /\ Len(cleans) = 2 /\ cleans[1] = <<>> /\ cleans[2] = <<>>)
    => /\ HasGreeting(prompt) => result = FALLBACK_GREETING
       /\ (~HasGreeting(prompt) /\ HasWeather(prompt)) => result = FALLBACK_WEATHER
       /\ (~HasGreeting(prompt) /\ ~HasWeather(prompt) /\ TextLen(strip(prompt)) < 10)
            => result = FALLBACK_SHORT
       /\ (~HasGreeting(prompt) /\ ~HasWeather(prompt) /\ TextLen(strip(prompt)) >= 10)
            => result = FALLBACK_GENERIC

\* A prompt with both keywords gets the greeting, after an HTTP error whose
\* text sanitized to empty and an answer of markup only.
C5_Witness ==
  /\ pc = "returned" /\ Len(cleans) = 2 /\ cleans[1] = <<>> /\ cleans[2] = <<>>
  /\ HasGreeting(prompt) /\ HasWeather(prompt)
  /\ replies[1].kind = "status" /\ replies[2].kind = "json"
  /\ result = FALLBACK_GREETING

\* text occurs in s, as one piece
Embeds(s, text) ==
  \E i \in 1..(Len(s) + 1) :
    /\ i + Len(text) - 1 <= Len(s)
    /\ \A j \in 1..Len(text) : s[i + j - 1] = text[j]

\* C18: a protocol error on a chat request comes back as a diagnostic string
\* in what ask returns and is not raised: after an answer with a status
\* outside 2xx ask returns a text holding the status code and the truncated
\* body, after a 2xx answer whose body is no JSON ask returns a text too.
C18_ProtocolErrorIsText ==
  LET r == replies[Len(replies)]
  IN /\ (replies # <<>> /\ r.kind = "status")
          => /\ pc = "returned"
             /\ Embeds(result, <<"[HTTP 500]">>)
             /\ Embeds(result, Slice(r.body, HTTP_TEXT_CHARS))
     /\ (replies # <<>> /\ r.kind = "badjson")
          => (pc = "returned" /\ result # <<>>)

\* the content of the system message of a chat request, <<>> when it has none
SystemOf(req) ==
  IF req.messages # <<>> /\ req.messages[1].role = "system"
  THEN req.messages[1].content ELSE <<>>

\* the last message of a chat request
LastOf(req) == req.messages[Len(req.messages)]

\* text b is text a with more behind it, the stricter instruction at its end
Strengthened(a, b) ==
  /\ Len(b) > Len(a)
  /\ \A j \in 1..Len(a) : b[j] = a[j]
  /\ b[Len(b)] = STRICT_INSTR

\* C23: in a call that reaches attempt 2, with no_think true or false, the
\* second request has the system message of the first one extended with the
\* stricter instruction, and the soft stops in its options; the first
\* request has no stops; the user message is the same in both.
C23_Attempt2Stricter ==
  Len(sent) = 2
    => /\ sent[2].messages[1].role = "system"
       /\ Strengthened(SystemOf(sent[1]), SystemOf(sent[2]))
       /\ "stop" \in DOMAIN sent[2].options /\ sent[2].options.stop = SOFT_STOPS
       /\ "stop" \notin DOMAIN sent[1].options
       /\ LastOf(sent[2]) = LastOf(sent[1]) /\ LastOf(sent[1]).role = "user"

\* C24: every chat request ask sends has at most one system message, which
\* is then the first message, exactly one user message, which is the last
\* one and carries the prompt, and stream false; with no_think a system
\* message is there even when no system prompt was passed.
C24_MessagesWellFormed ==
  \A i \in 1..Len(sent) :
    LET ms == sent[i].messages
    IN /\ \A j \in 1..Len(ms) : ms[j].role = "system" => j = 1
       /\ Cardinality({j \in 1..Len(ms) : ms[j].role = "user"}) = 1
       /\ \A j \in 1..Len(ms) : ms[j].role \in {"system", "user"}
       /\ ms # <<>> /\ ms[Len(ms)] = Message("user", prompt)
       /\ sent[i].stream = FALSE
       /\ no_think => ms[1].role = "system"

\* ask, called with no_think and no system prompt, has sent two requests,
\* each opening with a system message.
C24_Witness ==
  /\ Len(sent) = 2 /\ no_think /\ system = <<>> /\ prompt # <<>>
  /\ sent[1].messages[1].role = "system" /\ sent[2].messages[1].role = "system"
  /\ Len(sent[2].messages) = 2

\* C28: what ask returns is never empty, and is the sanitized form of what
\* one of the answers of this call gave, or one of the canned replies.
C28_ReturnsSanitizedOrFallback ==
  pc = "returned"
    => /\ result # <<>>
       /\ Len(replies) <= 2
       /\ \/ result \in Fallbacks
          \/ \E i \in 1..Len(replies) :
               /\ post_chat_raises(replies[i]) = None
               /\ result = strip_thinking(post_chat(replies[i]))

\* ask has returned the second answer, which the sanitizer had changed.
C28_Witness ==
  /\ pc = "returned" /\ Len(replies) = 2 /\ replies[2].kind = "json"
  /\ result = strip_thinking(replies[2].body) /\ result # replies[2].body

\* ------------------------------------------------------------------ claims on strip_thinking
\* The opening <think> tags of s that no closing tag follows.
Unterminated(s) ==
  {i \in 1..Len(s) : s[i] \in ThinkOpen /\ \A j \in (i + 1)..Len(s) : s[j] \notin ThinkClose}

\* C6: when the input has an opening <think> tag with no closing tag after it,
\* the output is the sanitized text before that tag, and so is empty when the
\* tag opens the input.
C6_UnterminatedCut ==
  (s_pc # "input" /\ Unterminated(txt) # {})
    => out = strip_thinking(SubSeq(txt, 1, Min(Unterminated(txt)) - 1))

\* C7: strip_thinking is idempotent: sanitizing its output again changes nothing.
C7_Idempotent == s_pc = "twice" => out2 = out

\* The nesting depth of the think tags of s, and whether they pair up.
RECURSIVE Depth(_)
Depth(s) ==
  IF s = <<>> THEN 0
  ELSE Depth(SubSeq(s, 1, Len(s) - 1))
       + (IF s[Len(s)] \in ThinkOpen THEN 1 ELSE IF s[Len(s)] \in ThinkClose THEN -1 ELSE 0)
Balanced(s) == Depth(s) = 0 /\ \A k \in 1..Len(s) : Depth(SubSeq(s, 1, k)) >= 0

\* The well-formed spans of s: an opening tag, a content whose own tags pair
\* up, and the closing tag.
Spans(s) ==
  {ij \in (1..Len(s)) \X (1..Len(s)) :
     /\ ij[1] < ij[2]
     /\ s[ij[1]] \in ThinkOpen
     /\ s[ij[2]] \in ThinkClose
     /\ Balanced(SubSeq(s, ij[1] + 1, ij[2] - 1))}

\* The visible content of the span: its tokens that are neither tags nor
\* white space and that occur nowhere else in s.
Content(s, ij) ==
  {s[k] : k \in (ij[1] + 1)..(ij[2] - 1)}
    \ (ThinkOpen \cup ThinkClose \cup {SP, NL}
         \cup {s[k] : k \in (1..(ij[1] - 1)) \cup ((ij[2] + 1)..Len(s))})

\* C8: the output contains none of the content of any well-formed
\* <think>...</think> span of the input, nested spans included.
C8_NoSpanContent ==
  s_pc # "input" => \A ij \in Spans(txt) : Content(txt, ij) \cap Range(out) = {}

\* C9, as claimed: the output is never longer than the configured maximum,
\* whatever the maximum, 0 included.
C9_WithinAnyBudget == s_pc # "input" => TextLen(out) <= MAX_OUTPUT_CHARS

\* C9, amended: the output is never longer than a positive configured maximum
\* (a maximum of 0 switches the truncation off).
C9_WithinPositiveBudget ==
  (s_pc # "input" /\ MAX_OUTPUT_CHARS > 0) => TextLen(out) <= MAX_OUTPUT_CHARS

\* A call whose sanitized text was longer than the positive budget and was cut to it.
C9_Witness ==
  /\ s_pc = "once"
  /\ MAX_OUTPUT_CHARS > 0
  /\ TextLen(strip_thinking_with(txt, 0)) > MAX_OUTPUT_CHARS
  /\ TextLen(out) = MAX_OUTPUT_CHARS

\* ------------------------------------------------------------------ claims on TTLCache
\* C10, as claimed: get(k) returns the value of the most recent set(k, v, ttl)
\* exactly while that entry has not expired, and absent otherwise.
C10_ValueWhileNotExpired ==
  last_op.op = "get" =>
    LET h == last_set[last_op.key]
    IN last_op.value = IF h.set /\ h.expire_at >= last_op.at THEN h.value ELSE None

\* C10, amended: get(k) returns the value of the most recent set(k, v, ttl)
\* exactly while that entry has not expired and no later set at max_size has
\* popped it, and absent otherwise; so it never returns a value whose expiry
\* time is earlier than the current time.
C10_ValueWhileLive ==
  last_op.op = "get" =>
    LET h == last_set[last_op.key]
    IN /\ last_op.value =
            IF h.set /\ h.expire_at >= last_op.at /\ ~h.evicted THEN h.value ELSE None
       /\ last_op.value # None => h.expire_at >= last_op.at

\* A get of an entry that was set, was never popped, and has expired.
C10_Witness ==
  /\ last_op.op = "get"
  /\ last_op.value = None
  /\ last_set[last_op.key].set
  /\ ~last_set[last_op.key].evicted
  /\ last_set[last_op.key].expire_at < last_op.at

\* the entries of st whose key is not k, in order
Others(st, k) == SelectSeq(st, LAMBDA it : it.key # k)

\* C25: expired entries leave the store on a read of their own key only:
\* get(k) on an expired entry takes out the entry of k and nothing else,
\* get(k) on a live or missing key changes nothing; the passing of time
\* takes nothing out; and set treats an expired entry like a live one: it
\* takes out no entry of another key but the oldest one of a store that
\* holds max_size entries, expired ones counted, and that one it does take.
C25_LazyEviction ==
  /\ [][\A k \in Keys :
          CacheGet(k)
            => /\ Others(store', k) = Others(store, k)
               /\ IF HasKey(store, k) /\ Item(store, k).expire_at < now
                  THEN ~HasKey(store', k)
                  ELSE store' = store]_vars
  /\ [][now' # now => store' = store]_vars
  /\ [][\A k \in Keys, v \in Values, ttl \in Ttls :
          CacheSet(k, v, ttl)
            => \A i \in 1..Len(store) :
                 store[i].key # k
                   => (HasKey(store', store[i].key) <=> ~(i = 1 /\ Len(store) >= max_size))]_vars

\* get(k) has just taken the expired entry of k out of a store in which the
\* entry of another key, expired as well and not read, is still held.
C25_Witness ==
  /\ last_op.op = "get" /\ last_op.value = None /\ last_op.at = now
  /\ last_set[last_op.key].set /\ ~last_set[last_op.key].evicted
  /\ last_set[last_op.key].expire_at < now
  /\ ~HasKey(store, last_op.key)
  /\ \E i \in 1..Len(store) : store[i].expire_at < now

\* C26: the store never holds more than max_size entries.
C26_SizeBounded == c_pc = "on" => Len(store) <= max_size

\* a set on a full store has popped the oldest entry and left the store full.
C26_Witness ==
  /\ last_op.op = "set" /\ Len(store) = max_size
  /\ \E k \in Keys : last_set[k].set /\ last_set[k].evicted /\ ~HasKey(store, k)

\* C27: set(k, v) on a key that is in the store replaces the entry of k and
\* leaves the entry of every other key as it was, also in a store that holds
\* max_size entries.
C27_SetReplacesOnly ==
  [][\A k \in Keys, v \in Values, ttl \in Ttls :
       (HasKey(store, k) /\ CacheSet(k, v, ttl))
         => /\ HasKey(store', k) /\ Item(store', k) = Entry(k, v, now + ttl)
            /\ Others(store', k) = Others(store, k)]_vars

\* ------------------------------------------------------------------ claims on WeatherClient.geocode
\* geocode(c) was answered from a request before, and the lifetime of that
\* answer is not over
GeoWarm(k) == geo_hist[k].set /\ now <= geo_hist[k].at + GEO_TTL

\* C11: once geocode(city) has returned a result, every further geocode call
\* for that city and language within the 7 days of the lifetime returns the
\* same result and sends no request to the geocoding endpoint.
C11_SecondCallFromCache ==
  [][\A c \in Cities, gr \in GeoReplies :
       (w_last'.city = c /\ strip(c) # <<>> /\ GeoWarm(strip(c)) /\ Geocode(c, gr))
         => (w_last'.value = geo_hist[strip(c)].value /\ w_last'.geo_requests = 0)]_vars

\* C11 as it holds: the same, as long as no set on a full cache has popped
\* the entry of the city in between.
C11_SecondCallFromCacheUnlessPopped ==
  [][\A c \in Cities, gr \in GeoReplies :
       (w_last'.city = c /\ strip(c) # <<>> /\ GeoWarm(strip(c))
          /\ ~geo_hist[strip(c)].evicted /\ Geocode(c, gr))
         => (w_last'.value = geo_hist[strip(c)].value /\ w_last'.geo_requests = 0)]_vars

\* A geocode call made exactly when the lifetime ends is answered from the
\* cache, with the result a request at time 0 brought.
C11_Witness ==
  /\ w_last.op = "geocode" /\ w_last.at = GEO_TTL
  /\ w_last.value # <<>> /\ w_last.geo_requests = 0
  /\ geo_hist[strip(w_last.city)].at = 0

\* the last call was a geocode that asked the endpoint and returned None
GeoFailed(call) ==
  call.op = "geocode" /\ call.value = <<>> /\ call.geo_requests = 1

\* the entry of key is there and its lifetime is over at time t
Stale(it, key, t) == it.key = key /\ Expired(it, t)

\* C12: a geocode call that fails (an empty result list, a failed request)
\* leaves the geocode cache as it was, and the next geocode call for the city
\* sends a request again.
C12_FailureLeavesCache ==
  [][\A c \in Cities, gr \in GeoReplies :
       /\ (w_last'.city = c /\ GeoFailed(w_last') /\ Geocode(c, gr)) => geo_cache' = geo_cache
       /\ (w_last'.city = c /\ GeoFailed(w_last) /\ strip(w_last.city) = strip(c)
              /\ Geocode(c, gr))
            => w_last'.geo_requests = 1]_vars

\* C12 as it holds: a failing geocode call stores no entry and changes none;
\* it only drops the entry of its own key when that entry had expired.
C12_FailureStoresNothing ==
  [][\A c \in Cities, gr \in GeoReplies :
       /\ (w_last'.city = c /\ GeoFailed(w_last') /\ Geocode(c, gr))
            => /\ geo_cache' = SelectSeq(geo_cache,
                      LAMBDA it : ~Stale(it, GeoKey(lang, strip(c)), now))
               /\ ~HasKey(geo_cache', GeoKey(lang, strip(c)))
       /\ (w_last'.city = c /\ GeoFailed(w_last) /\ strip(w_last.city) = strip(c)
              /\ Geocode(c, gr))
            => w_last'.geo_requests = 1]_vars

\* A geocode call has failed for a city whose earlier result had expired.
C12_Witness ==
  /\ GeoFailed(w_last)
  /\ geo_hist[strip(w_last.city)].set
  /\ ~HasKey(geo_cache, GeoKey(lang, strip(w_last.city)))

\* ------------------------------------------------------------------ claims on fetch and bubble_text
\* C13: bubble_text never raises; it returns None when the city is empty or
\* blank (and then sends no request), when geocoding failed and when the
\* forecast request failed; on a forecast body of an unexpected shape (a
\* weather code that is no number, say) it still returns.
C13_BubbleTextNeverRaises ==
  [][\A c \in WeatherCities, gr \in WeatherGeoReplies, wr \in WxReplies :
       (w_last'.op = "bubble_text" /\ w_last'.city = c /\ BubbleText(c, gr, wr))
         => /\ w_last'.raised = None
            /\ strip(c) = <<>>
                 => /\ w_last'.value = <<>>
                    /\ w_last'.geo_requests = 0 /\ w_last'.wx_requests = 0
            /\ (w_last'.geo_requests = 1 /\ (geocode_fails(gr) \/ gr.results = <<>>))
                 => w_last'.value = <<>>
            /\ (w_last'.wx_requests = 1 /\ wr.kind # "json")
                 => w_last'.value = <<>>]_vars

\* C14: a snapshot fetch returns is the answer to a forecast request that
\* ended at most WX_TTL = 600 seconds before the return.
C14_SnapshotFresh ==
  (w_last.op = "fetch" /\ w_last.value # <<>>)
    => w_last.at - w_last.value[1].fetched_at <= WX_TTL

\* fetch has returned, from its cache, a snapshot exactly 600 seconds old.
C14_Witness ==
  /\ w_last.op = "fetch" /\ w_last.value # <<>> /\ w_last.wx_requests = 0
  /\ w_last.at - w_last.value[1].fetched_at = WX_TTL

\* ------------------------------------------------------------------ claims on ensure_ready
\* the window of wait_sec seconds has passed since t0
WindowOver == r_polled /\ r_clock - r_t0 >= wait_sec * 10

\* C15: ensure_ready never raises; it returns False only when the server was
\* still unreachable after the whole wait window was polled, and True when a
\* probe made within the window found the server reachable.
C15_FalseOnlyAfterWindow ==
  r_pc = "returned"
    => /\ r_result = FALSE => (WindowOver /\ ~r_seen_up)
       /\ r_seen_up => r_result = TRUE

\* C16: once the probe before the model query has succeeded, ensure_ready
\* returns True, whatever the model query and the pull do.
C16_TrueOnceReachable ==
  (r_pc = "returned" /\ r_lists > 0) => r_result = TRUE

\* ensure_ready has returned after a pull request that was sent for a model
\* not found and brought no event to on_progress.
C16_Witness ==
  /\ r_pc = "returned" /\ r_result /\ r_lists = 1 /\ ~r_have
  /\ Len(r_pulls) = 1 /\ r_calls = <<>>

\* the most probes a call can send: one before the loop, one for each round
\* of the loop, each round but the last sleeping 1.2 s, and one to decide
MaxProbes(wait) == (wait * 10 + SLEEP_TENTHS - 1) \div SLEEP_TENTHS + 3

AskOver == pc \in {"off", "returned", "raised"}
ReadyOver == r_pc \in {"off", "returned"}

\* C17: every call of ask and every call of ensure_ready ends, given that
\* each request is answered or times out: the polling loop sends a bounded
\* number of probes and the pull stream is read to its end.
C17_Terminates ==
  /\ [](r_probes <= MaxProbes(wait_sec))
  /\ <>(AskOver /\ ReadyOver)

\* ensure_ready has returned False after polling through the default window
\* of 45 seconds with every probe refused at once.
C17_Witness ==
  /\ r_pc = "returned" /\ ~r_result /\ wait_sec = DEFAULT_WAIT_SEC
  /\ r_probes = MaxProbes(DEFAULT_WAIT_SEC)

\* an installed model has the base name of the model asked for
have_same_base(model, l) ==
  \E i \in 1..Len(l.names) : base_name(l.names[i]) = base_name(model)

\* C20: after a model query that was answered, the pull request is sent if
\* and only if no installed model has the base name of the model asked for.
C20_PullIffNoSameBase ==
  [][\A l \in Listings :
       (r_pc = "list" /\ l.kind = "json" /\ ReadyList(l))
         => ((r_pc' = "pull") <=> ~have_same_base(model_name, l))]_vars

\* C21: a pull request is sent only after a probe of the same call found the
\* server reachable and after the model query was sent, and at most once in
\* a call; a call that returns False has sent no model query and no pull
\* request.
C21_ProbeListPull ==
  /\ [][Len(r_pulls') > Len(r_pulls)
          => (r_seen_up /\ r_lists > 0 /\ r_pulls = <<>> /\ Len(r_pulls') = 1)]_vars
  /\ []((r_pc = "returned" /\ ~r_result) => (r_lists = 0 /\ r_pulls = <<>>))

\* ensure_ready has returned True after the polling loop, one model query
\* and one pull request whose stream brought an event to on_progress.
C21_Witness ==
  /\ r_pc = "returned" /\ r_result /\ r_polled /\ r_seen_up
  /\ r_lists = 1 /\ Len(r_pulls) = 1 /\ Len(r_calls) = 1

\* floor(completed * 100 / total) when both are integers and total > 0,
\* absent otherwise
floor_pct(ln) ==
  IF ln.completed # <<>> /\ ln.total # <<>> /\ ln.total[1] > 0
  THEN <<(ln.completed[1] * 100) \div ln.total[1]>>
  ELSE <<>>

\* the status events among lines, in order
StatusEvents(lines) == SelectSeq(lines, LAMBDA ln : ln.kind = "event")

\* C22: each line read from the pull stream that is a status event brings
\* exactly one call of on_progress, with the percent floor(completed * 100 /
\* total) or none; any other line brings no call; when on_progress raises,
\* ensure_ready returns True, and as long as it does not, the status events
\* of the lines still to come are all still to be read.
C22_OneCallPerEvent ==
  [][(r_pc = "stream" /\ r_stream # <<>> /\ ReadyLine)
       => LET ln == Head(r_stream)
              called == ln.kind = "event" /\ on_progress # None
          IN /\ called => r_calls' = Append(r_calls, [completed |-> ln.completed,
                                                       total |-> ln.total,
                                                       pct |-> floor_pct(ln)])
             /\ ~called => r_calls' = r_calls
             /\ (called /\ on_progress = "raises")
                  => (r_pc' = "returned" /\ r_result' = TRUE)
             /\ (on_progress = "returns")
                  => StatusEvents(r_stream') = StatusEvents(Tail(r_stream))]_vars

\* ------------------------------------------------------------------ claims on the supporting operations
\* the request failed: it raised, or the answer was not ok
RequestFailed(reply) == reply.kind \in {"error", "status"}

\* the names of the entries of an array: "name", else "model", entries with
\* neither left out
RECURSIVE NamesOf(_)
NamesOf(entries) ==
  IF entries = <<>> THEN <<>>
  ELSE LET m == Head(entries)
       IN (IF m.name # <<>> THEN <<m.name>>
           ELSE IF m.model # <<>> THEN <<m.model>> ELSE <<>>) \o NamesOf(Tail(entries))

\* C19: is_available and unload return False when the request raises or the
\* answer is not ok; list_models returns the empty list on any failure and
\* else the names found in the "models" array, or in the "data" array when
\* there is no "models"; each call sends exactly one request.
C19_SupportNeverRaises ==
  LET r == sup_last.reply
  IN /\ sup_last.op # "none" => sup_last.requests = 1
     /\ sup_last.op \in {"is_available", "unload"}
          => /\ RequestFailed(r) => sup_last.value = FALSE
             /\ sup_last.value \in BOOLEAN
     /\ sup_last.op = "list_models"
          => /\ (RequestFailed(r) \/ r.kind = "badjson") => sup_last.value = <<>>
             /\ (r.kind = "json" /\ r.models # <<>>) => sup_last.value = NamesOf(r.models)
             /\ (r.kind = "json" /\ r.models = <<>>) => sup_last.value = NamesOf(r.data)

\* list_models has returned the names of a "data" array, one of them taken
\* from "model".
C19_Witness ==
  /\ sup_last.op = "list_models" /\ sup_last.reply.kind = "json"
  /\ sup_last.reply.models = <<>> /\ Len(sup_last.reply.data) = 2
  /\ sup_last.value = <<<<"m">>, <<"q">>>>


\* ------------------------------------------------------------------ claims on auto-bubbling
\* the silence window has passed since an event that happened a steps ago
Passed(a) == a = <<>> \/ a[1] >= SILENCE

\* C29: after on_click, and after a reply to a submission has been shown,
\* auto_bubble shows no bubble until SILENCE_AFTER_CHAT has passed since the
\* later of the two, whatever the order of clicks, submissions, replies,
\* _resume callbacks and timeouts of the auto timer.
C29_SilenceRespected ==
  [][\A c \in Choices, text \in BOOLEAN, available \in BOOLEAN, d \in AutoDelays :
       (AutoBubble(c, text, available, d) /\ last_auto' = "shown")
         => (Passed(since_click) /\ Passed(since_reply))]_vars

\* C30: while the setting stays on, a stopped auto timer is started again in
\* the end, also when the input bar is closed with nothing submitted, and
\* every run of auto_bubble with the setting on arms the timer again.
C30_AutoNeverStopsForGood ==
  /\ [][\A c \in Choices, text \in BOOLEAN, available \in BOOLEAN, d \in AutoDelays :
          (settings_auto_bubble /\ AutoBubble(c, text, available, d)) => auto_timer' # <<>>]_vars
  /\ []((settings_auto_bubble /\ auto_timer = <<>>)
          => <>(auto_timer # <<>> \/ ~settings_auto_bubble))


====
